---- MODULE Spec2Model ----
(***************************************************************************)
(* Sorted singly-linked list with sentinel head/tail nodes, in its four    *)
(* implementations:                                                        *)
(*   "seq"    SortedLinkedList_Sequential   (set_sequential.h)             *)
(*   "coarse" SortedLinkedList_CoarseLock   (set_coarse.h)                 *)
(*   "fine"   SortedLinkedList_FineLock     (set_fine.h)                   *)
(*   "pq"     SortedLinkedList_FineLockPQ   (pq_fine.h)                    *)
(* A behaviour works on one collection, of the implementation chosen in    *)
(* Init.  Nodes live in a heap of PoolSize cells; a pointer is a cell      *)
(* number, NULL is 0.  Each thread executes its calls statement by         *)
(* statement: pc[t] is the statement it is at.                             *)
(***************************************************************************)
EXTENDS Integers, Sequences, FiniteSets, TLC

\* ---------------------------------------------------------------- bounds
NThreads == 2          \* threads sharing the collection
MaxCalls == 2          \* calls each thread issues in Spec
SeqCalls == 4          \* calls the single thread issues in SpecOne
MaxAudit == 2          \* data nodes of a collection handed to check_invariants

\* The element type int, scaled down: numeric_limits<int>::lowest() and max().
min_val == 0
max_val == 2

Threads == 1..NThreads
Values == min_val..max_val
PoolSize == 2 + NThreads * MaxCalls + SeqCalls
Cells == 1..PoolSize
NULL == 0
NoThread == 0
Impls == {"seq", "coarse", "fine", "pq"}

\* std::optional<T>: nullopt is the empty tuple, a value is the element.
nullopt == <<>>

VARIABLES
    impl,          \* which implementation this collection is
    head, tail,    \* the sentinel pointers
    nodes,         \* the allocated cells
    val, next,     \* node fields
    node_mutex,    \* FineNode::node_mutex: the owning thread, or NoThread
    list_mutex,    \* CoarseLock::list_mutex: [writer, readers]
    current_size,  \* the atomic size counter (coarse, fine, pq)
    pc, op, arg,   \* per thread: statement, operation, argument
    pred, curr,    \* per thread: pred/curr (set, push), pred_pred/node_to_delete (pop)
    node,          \* per thread: new_node (push), node_to_delete (remove),
                   \*             next_node / tail_sentinel_locked (pop)
    res,           \* per thread: the value the last call returned
    left,          \* per thread: calls still to issue
    callers,       \* the threads that issue calls
    values_to_add, \* the shuffled vector the adding threads share (ConcurrentAdds)
    seq_id,        \* the sequence id the next pushed element carries
    abs,           \* history: the abstract set / queue, changed at linearization points
    expect,        \* history: per thread, what the abstract object answered
    added, removed,\* history: per value, the adds / removes that succeeded; per
                   \*          element of the queue, the pushes linked / pops unlinked
    pre            \* history: the collection as the single caller's call found it,
                   \*          and that caller's two calls before

heap == <<head, tail, nodes, val, next>>
hist == <<abs, expect, added, removed, pre>>
vars == <<impl, head, tail, nodes, val, next, node_mutex, list_mutex, current_size,
          pc, op, arg, pred, curr, node, res, left, callers, values_to_add, seq_id,
          abs, expect, added, removed, pre>>

\* ------------------------------------------------------------ comparators
\* ComparePriorityOnly: elements of the queue are {priority, sequence_id}.
comp(a, b) == a[1] < b[1]

\* ------------------------------------------------------------ the chain
RECURSIVE Walk(_, _, _)
\* The nodes met from n following next, stopping at NULL, at a free cell or
\* after fuel steps.
Walk(n, nx, fuel) ==
    IF n = NULL \/ n \notin nodes \/ fuel = 0 THEN <<>>
    ELSE <<n>> \o Walk(nx[n], nx, fuel - 1)

Chain == Walk(head, next, PoolSize + 1)
Range(s) == {s[i] : i \in 1..Len(s)}
DataNodes == Range(Chain) \ {head, tail}
DataSeq == SelectSeq(Chain, LAMBDA n : n # head /\ n # tail)
DataVals == [i \in 1..Len(DataSeq) |-> val[DataSeq[i]]]

\* operator new: the lowest free cell (cells are interchangeable).
NewCell == CHOOSE c \in Cells \ nodes : \A d \in Cells \ nodes : c <= d
DefaultVal == IF impl = "pq" THEN <<min_val, 0>> ELSE min_val

Quiescent == \A t \in Threads : pc[t] \in {"idle", "done"}

Held(t) == {c \in Cells : node_mutex[c] = t}

\* A tally: how often each element was counted.
NoTally == [e \in {} |-> 0]
Count(f, e) == IF e \in DOMAIN f THEN f[e] ELSE 0
Tally(f, e) == [x \in DOMAIN f \cup {e} |-> IF x = e THEN Count(f, e) + 1 ELSE f[x]]

\* History of the queue: the elements whose push has returned, and per
\* element pushed those of them of its priority at the moment its push was
\* invoked (pre.earlier).
NoEarlier == [e \in {} |-> {}]
Returned ==
    DOMAIN added \ {arg[u] : u \in {x \in Threads : op[x] = "push"
                                                    /\ pc[x] \notin {"idle", "done"}}}
Earlier(o, v) ==
    IF o = "push"
    THEN [e \in DOMAIN pre.earlier \cup {v} |->
            IF e = v THEN {a \in Returned : ~comp(a, v) /\ ~comp(v, a)}
            ELSE pre.earlier[e]]
    ELSE pre.earlier

\* ------------------------------------------------------------------ Init
\* The threads before their first call: no lock held, the locals unset, cs
\* the threads that will call, n[t] the calls thread t issues, w the vector of
\* values a test hands its threads.
InitCallers(cs, n, w) ==
    /\ node_mutex = [c \in Cells |-> NoThread]
    /\ list_mutex = [writer |-> NoThread, readers |-> {}]
    /\ pc = [t \in Threads |-> "idle"]
    /\ op = [t \in Threads |-> "none"]
    /\ arg = [t \in Threads |-> DefaultVal]
    /\ pred = [t \in Threads |-> NULL]
    /\ curr = [t \in Threads |-> NULL]
    /\ node = [t \in Threads |-> NULL]
    /\ res = [t \in Threads |-> IF impl = "pq" THEN nullopt ELSE FALSE]
    /\ callers = IF impl = "seq" THEN {1} ELSE cs
    /\ values_to_add = w
    /\ left = [t \in Threads |-> IF t \in callers THEN n[t] ELSE 0]
    /\ seq_id = 1
    /\ abs = IF impl = "pq" THEN <<>> ELSE {}
    /\ expect = [t \in Threads |-> IF impl = "pq" THEN nullopt ELSE FALSE]
    /\ added = IF impl = "pq" THEN NoTally ELSE [v \in Values |-> 0]
    /\ removed = IF impl = "pq" THEN NoTally ELSE [v \in Values |-> 0]
    /\ pre = [chain |-> <<>>, vals |-> <<>>, size |-> 0, mutex |-> node_mutex,
              calls |-> <<>>, earlier |-> NoEarlier]

\* The state after construction.  The set constructors allocate tail, then
\* head; the queue's allocates head, then tail.
InitWith(cs, n, w) ==
    /\ impl \in Impls
    /\ head = IF impl = "pq" THEN 1 ELSE 2
    /\ tail = IF impl = "pq" THEN 2 ELSE 1
    /\ nodes = {1, 2}
    /\ val = [c \in Cells |->
                IF c = tail THEN (IF impl = "pq" THEN <<max_val, 0>> ELSE max_val)
                ELSE DefaultVal]
    /\ next = [c \in Cells |-> IF c = head THEN tail ELSE NULL]
    /\ current_size = 0
    /\ InitCallers(cs, n, w)

Init == InitWith(Threads, [t \in Threads |-> MaxCalls], <<>>)

\* ------------------------------------------------------------- the calls
\* Thread t enters operation o with argument v; its locals start as the
\* code declares them (nullptr; push's new_node is n).
Call(t, o, v, first, n) ==
    /\ t \in callers
    /\ pc[t] \in {"idle", "done"}
    /\ left[t] > 0
    /\ left' = [left EXCEPT ![t] = @ - 1]
    /\ op' = [op EXCEPT ![t] = o]
    /\ arg' = [arg EXCEPT ![t] = v]
    /\ pc' = [pc EXCEPT ![t] = first]
    /\ pred' = [pred EXCEPT ![t] = NULL]
    /\ curr' = [curr EXCEPT ![t] = NULL]
    /\ node' = [node EXCEPT ![t] = n]
    /\ pre' = IF Cardinality(callers) = 1
              THEN [chain |-> Chain, vals |-> DataVals, size |-> current_size,
                    mutex |-> node_mutex,
                    calls |-> IF op[t] = "none" THEN <<>>
                              ELSE <<[op |-> op[t], arg |-> arg[t], res |-> res[t],
                                      vals |-> pre.vals, size |-> pre.size]>>
                                   \o (IF pre.calls = <<>> THEN <<>>
                                       ELSE <<pre.calls[1]>>),
                    earlier |-> Earlier(o, v)]
              ELSE [pre EXCEPT !.earlier = Earlier(o, v)]

\* Mutant: the decrement is lost.
fetch_sub_lost(n) == n

\* Mutant: the increment is lost.
fetch_add_lost(n) == n

\* std::atomic<size_t>::fetch_add(1) / fetch_sub(1): the counter's new value.
fetch_add(n) == n + 1
fetch_sub(n) == n - 1

\* FineNode::lock / unlock.  lock blocks while another thread owns the mutex.
CanLock(c) == c \in Cells /\ node_mutex[c] = NoThread
lock(t, c) == node_mutex' = [node_mutex EXCEPT ![c] = t]
unlock(t, c) == node_mutex' = [node_mutex EXCEPT ![c] = NoThread]

\* ------------------------------------------- fine-locked set (set_fine.h)
fine_call(t) ==
    /\ impl = "fine"
    /\ \E o \in {"add", "remove", "contains"}, v \in Values :
          Call(t, o, v, "hoh_lock_pred", NULL)
    /\ UNCHANGED <<impl, heap, node_mutex, list_mutex, current_size, res, callers, values_to_add,
                   seq_id, abs, expect, added, removed>>

\* find_and_lock_hoh, lines 49-51: pred = head; pred->lock(); curr = pred->next
hoh_lock_pred(t) ==
    /\ pc[t] = "hoh_lock_pred"
    /\ CanLock(head)
    /\ lock(t, head)
    /\ pred' = [pred EXCEPT ![t] = head]
    /\ curr' = [curr EXCEPT ![t] = next[head]]
    /\ pc' = [pc EXCEPT ![t] = "hoh_lock_curr"]
    /\ UNCHANGED <<impl, heap, list_mutex, current_size, op, arg, node, res, left,
                   callers, values_to_add, seq_id, hist>>

\* Mutant: the loop also passes a node equal to val (<= for <).
hoh_continue_le(t) == curr[t] # tail /\ val[curr[t]] <= arg[t]

\* Mutant: the loop test compares the wrong way round (> for <).
hoh_continue_gt(t) == curr[t] # tail /\ val[curr[t]] > arg[t]

\* The loop test of find_and_lock_hoh, line 54.
hoh_continue(t) == curr[t] # tail /\ val[curr[t]] < arg[t]

\* Mutant: the traversal goes on without taking curr's lock.
hoh_lock_curr_not_taken(t) ==
    /\ pc[t] = "hoh_lock_curr"
    /\ pc' = [pc EXCEPT ![t] = IF hoh_continue(t) THEN "hoh_step" ELSE op[t]]
    /\ UNCHANGED <<impl, heap, node_mutex, list_mutex, current_size, op, arg, pred,
                   curr, node, res, left, callers, values_to_add, seq_id, hist>>

\* lines 52/62 and 54: curr->lock(), then the loop test; out of the loop the
\* helper returns {pred, curr} to add, remove or contains.
hoh_lock_curr(t) ==
    /\ pc[t] = "hoh_lock_curr"
    /\ CanLock(curr[t])
    /\ lock(t, curr[t])
    /\ pc' = [pc EXCEPT ![t] = IF hoh_continue(t) THEN "hoh_step" ELSE op[t]]
    /\ UNCHANGED <<impl, heap, list_mutex, current_size, op, arg, pred, curr, node,
                   res, left, callers, values_to_add, seq_id, hist>>

\* Mutant: the traversal lets go of both nodes before it locks the next one.
hoh_step_release_both(t) ==
    /\ pc[t] = "hoh_step"
    /\ pred' = [pred EXCEPT ![t] = curr[t]]
    /\ curr' = [curr EXCEPT ![t] = next[curr[t]]]
    /\ node_mutex' = [node_mutex EXCEPT ![pred[t]] = NoThread, ![curr[t]] = NoThread]
    /\ pc' = [pc EXCEPT ![t] = IF next[curr[t]] = NULL THEN "thrown"
                                ELSE "hoh_lock_curr"]
    /\ UNCHANGED <<impl, heap, list_mutex, current_size, op, arg, node, res, left,
                   callers, values_to_add, seq_id, hist>>

\* Mutant: the traversal keeps pred locked when it moves on.
hoh_step_keeps_pred(t) ==
    /\ pc[t] = "hoh_step"
    /\ pred' = [pred EXCEPT ![t] = curr[t]]
    /\ curr' = [curr EXCEPT ![t] = next[curr[t]]]
    /\ pc' = [pc EXCEPT ![t] = IF next[curr[t]] = NULL THEN "thrown"
                                ELSE "hoh_lock_curr"]
    /\ UNCHANGED <<impl, heap, node_mutex, list_mutex, current_size, op, arg, node,
                   res, left, callers, values_to_add, seq_id, hist>>

\* lines 56-71: pred->unlock(); pred = curr; curr = curr->next; a null curr
\* unlocks pred and throws.
hoh_step(t) ==
    /\ pc[t] = "hoh_step"
    /\ pred' = [pred EXCEPT ![t] = curr[t]]
    /\ curr' = [curr EXCEPT ![t] = next[curr[t]]]
    /\ IF next[curr[t]] = NULL
       THEN /\ node_mutex' = [node_mutex EXCEPT ![pred[t]] = NoThread,
                                                 ![curr[t]] = NoThread]
            /\ pc' = [pc EXCEPT ![t] = "thrown"]
       ELSE /\ unlock(t, pred[t])
            /\ pc' = [pc EXCEPT ![t] = "hoh_lock_curr"]
    /\ UNCHANGED <<impl, heap, list_mutex, current_size, op, arg, node, res, left,
                   callers, values_to_add, seq_id, hist>>

\* Mutant: the equality test forgets that curr may be the tail sentinel.
found_ignores_tail(t) == val[curr[t]] = arg[t]

\* Mutant: the equality test looks at pred where it should look at curr.
found_tests_pred(t) == pred[t] # head /\ val[pred[t]] = arg[t]

\* The equality test of add, remove and contains (lines 144, 173, 224).
found(t) == curr[t] # tail /\ val[curr[t]] = arg[t]

\* contains, line 144, with pred and curr locked.
fine_contains(t) ==
    /\ impl = "fine" /\ pc[t] = "contains"
    /\ res' = [res EXCEPT ![t] = found(t)]
    /\ expect' = [expect EXCEPT ![t] = arg[t] \in abs]
    /\ pc' = [pc EXCEPT ![t] = "unlock_curr"]
    /\ UNCHANGED <<impl, heap, node_mutex, list_mutex, current_size, op, arg, pred,
                   curr, node, left, callers, values_to_add, seq_id, abs, added, removed, pre>>

\* add, lines 173-185 up to the splice pred->next = new_node.
fine_add(t) ==
    /\ impl = "fine" /\ pc[t] = "add"
    /\ IF found(t)
       THEN /\ res' = [res EXCEPT ![t] = FALSE]
            /\ pc' = [pc EXCEPT ![t] = "unlock_curr"]
            /\ UNCHANGED <<heap, node, added>>
       ELSE /\ nodes' = nodes \cup {NewCell}
            /\ val' = [val EXCEPT ![NewCell] = arg[t]]
            /\ next' = [next EXCEPT ![NewCell] = curr[t], ![pred[t]] = NewCell]
            /\ node' = [node EXCEPT ![t] = NewCell]
            /\ res' = [res EXCEPT ![t] = TRUE]
            /\ added' = [added EXCEPT ![arg[t]] = @ + 1]
            /\ pc' = [pc EXCEPT ![t] = "add_size"]
            /\ UNCHANGED <<head, tail>>
    /\ expect' = [expect EXCEPT ![t] = arg[t] \notin abs]
    /\ abs' = abs \cup {arg[t]}
    /\ UNCHANGED <<impl, node_mutex, list_mutex, current_size, op, arg, pred, curr,
                   left, callers, values_to_add, seq_id, removed, pre>>

\* Mutant: add lets go of its two nodes first and counts afterwards.
fine_add_size_after_unlock(t) ==
    /\ impl = "fine" /\ pc[t] = "add_size"
    /\ IF Held(t) # {}
       THEN /\ node_mutex' = [c \in Cells |-> IF node_mutex[c] = t THEN NoThread
                                               ELSE node_mutex[c]]
            /\ UNCHANGED <<current_size, pc>>
       ELSE /\ current_size' = fetch_add(current_size)
            /\ pc' = [pc EXCEPT ![t] = "done"]
            /\ UNCHANGED node_mutex
    /\ UNCHANGED <<impl, heap, list_mutex, op, arg, pred, curr, node, res, left,
                   callers, values_to_add, seq_id, hist>>

\* add, line 183: current_size.fetch_add(1)
fine_add_size(t) ==
    /\ impl = "fine" /\ pc[t] = "add_size"
    /\ current_size' = fetch_add(current_size)
    /\ pc' = [pc EXCEPT ![t] = "unlock_curr"]
    /\ UNCHANGED <<impl, heap, node_mutex, list_mutex, op, arg, pred, curr, node,
                   res, left, callers, values_to_add, seq_id, hist>>

\* Mutant: remove reports the hit but neither unlinks nor deletes the node.
fine_remove_not_unlinked(t) ==
    /\ impl = "fine" /\ pc[t] = "remove"
    /\ res' = [res EXCEPT ![t] = found(t)]
    /\ removed' = IF found(t) THEN [removed EXCEPT ![arg[t]] = @ + 1] ELSE removed
    /\ pc' = [pc EXCEPT ![t] = IF found(t) THEN "remove_size" ELSE "unlock_curr"]
    /\ expect' = [expect EXCEPT ![t] = arg[t] \in abs]
    /\ abs' = abs \ {arg[t]}
    /\ UNCHANGED <<impl, heap, node_mutex, list_mutex, current_size, op, arg, pred,
                   curr, node, left, callers, values_to_add, seq_id, added, pre>>

\* remove, lines 224-236 up to the splice pred->next = curr->next.
fine_remove(t) ==
    /\ impl = "fine" /\ pc[t] = "remove"
    /\ IF found(t)
       THEN /\ next' = [next EXCEPT ![pred[t]] = next[curr[t]]]
            /\ node' = [node EXCEPT ![t] = curr[t]]
            /\ res' = [res EXCEPT ![t] = TRUE]
            /\ removed' = [removed EXCEPT ![arg[t]] = @ + 1]
            /\ pc' = [pc EXCEPT ![t] = "remove_size"]
       ELSE /\ res' = [res EXCEPT ![t] = FALSE]
            /\ pc' = [pc EXCEPT ![t] = "unlock_curr"]
            /\ UNCHANGED <<next, node, removed>>
    /\ expect' = [expect EXCEPT ![t] = arg[t] \in abs]
    /\ abs' = abs \ {arg[t]}
    /\ UNCHANGED <<impl, head, tail, nodes, val, node_mutex, list_mutex,
                   current_size, op, arg, pred, curr, left, callers, values_to_add, seq_id, added,
                   pre>>

\* remove, line 229: current_size.fetch_sub(1)
fine_remove_size(t) ==
    /\ impl = "fine" /\ pc[t] = "remove_size"
    /\ current_size' = fetch_sub(current_size)
    /\ pc' = [pc EXCEPT ![t] = "unlock_curr"]
    /\ UNCHANGED <<impl, heap, node_mutex, list_mutex, op, arg, pred, curr, node,
                   res, left, callers, values_to_add, seq_id, hist>>

\* lines 156-157, 206-207, 250-251: if (curr) curr->unlock()
fine_unlock_curr(t) ==
    /\ impl = "fine" /\ pc[t] = "unlock_curr"
    /\ IF curr[t] # NULL THEN unlock(t, curr[t]) ELSE UNCHANGED node_mutex
    /\ pc' = [pc EXCEPT ![t] = "unlock_pred"]
    /\ UNCHANGED <<impl, heap, list_mutex, current_size, op, arg, pred, curr, node,
                   res, left, callers, values_to_add, seq_id, hist>>

\* operator delete: the cell returns to the allocator.
Free(c) ==
    /\ nodes' = nodes \ {c}
    /\ val' = [val EXCEPT ![c] = DefaultVal]
    /\ next' = [next EXCEPT ![c] = NULL]
    /\ UNCHANGED <<head, tail>>

\* Mutant: the call returns with pred still locked.
fine_unlock_pred_skipped(t) ==
    /\ impl = "fine" /\ pc[t] = "unlock_pred"
    /\ pc' = [pc EXCEPT ![t] = IF op[t] = "remove" THEN "remove_delete" ELSE "done"]
    /\ UNCHANGED <<impl, heap, node_mutex, list_mutex, current_size, op, arg, pred,
                   curr, node, res, left, callers, values_to_add, seq_id, hist>>

\* lines 158-160, 208-210, 252-253: if (pred) pred->unlock(); add and
\* contains return here, remove goes on to the delete.
fine_unlock_pred(t) ==
    /\ impl = "fine" /\ pc[t] = "unlock_pred"
    /\ IF pred[t] # NULL THEN unlock(t, pred[t]) ELSE UNCHANGED node_mutex
    /\ pc' = [pc EXCEPT ![t] = IF op[t] = "remove" THEN "remove_delete" ELSE "done"]
    /\ UNCHANGED <<impl, heap, list_mutex, current_size, op, arg, pred, curr, node,
                   res, left, callers, values_to_add, seq_id, hist>>

\* remove, lines 257-259: delete node_to_delete; return success
fine_remove_delete(t) ==
    /\ impl = "fine" /\ pc[t] = "remove_delete"
    /\ IF node[t] # NULL THEN Free(node[t]) ELSE UNCHANGED heap
    /\ pc' = [pc EXCEPT ![t] = "done"]
    /\ UNCHANGED <<impl, node_mutex, list_mutex, current_size, op, arg, pred, curr,
                   node, res, left, callers, values_to_add, seq_id, hist>>

FineStep(t) ==
    \/ fine_call(t)
    \/ hoh_lock_pred(t)
    \/ hoh_lock_curr(t)
    \/ hoh_step(t)
    \/ fine_contains(t)
    \/ fine_add(t)
    \/ fine_add_size(t)
    \/ fine_remove(t)
    \/ fine_remove_size(t)
    \/ fine_unlock_curr(t)
    \/ fine_unlock_pred(t)
    \/ fine_remove_delete(t)

\* --------------------------------- fine-locked priority queue (pq_fine.h)
\* The abstract queue: the elements in the order their pushes took effect.
\* Its top: the earliest among those of the highest priority.
AbsTop ==
    CHOOSE i \in 1..Len(abs) :
        /\ \A j \in 1..Len(abs) : ~comp(abs[i], abs[j])
        /\ \A j \in 1..(i - 1) : comp(abs[j], abs[i])
AbsPopValue == IF abs = <<>> THEN nullopt ELSE abs[AbsTop]
AbsPopRest ==
    IF abs = <<>> THEN abs
    ELSE [k \in 1..(Len(abs) - 1) |-> IF k < AbsTop THEN abs[k] ELSE abs[k + 1]]

\* push, line 157: new_node = new FinePQNode<T>(val), the element being
\* {priority, sequence_id}.
pq_push_call(t) ==
    /\ impl = "pq"
    /\ \E p \in Values : Call(t, "push", <<p, seq_id>>, "for_push_lock_pred", NewCell)
    /\ seq_id' = seq_id + 1
    /\ nodes' = nodes \cup {NewCell}
    /\ val' = [val EXCEPT ![NewCell] = arg'[t]]
    /\ UNCHANGED <<impl, head, tail, next, node_mutex, list_mutex, current_size, res,
                   callers, values_to_add, abs, expect, added, removed>>

\* find_and_lock_for_push, lines 77-80.
for_push_lock_pred(t) ==
    /\ pc[t] = "for_push_lock_pred"
    /\ CanLock(head)
    /\ lock(t, head)
    /\ pred' = [pred EXCEPT ![t] = head]
    /\ curr' = [curr EXCEPT ![t] = next[head]]
    /\ pc' = [pc EXCEPT ![t] = IF next[head] = NULL THEN "assert_failed"
                                ELSE "for_push_lock_curr"]
    /\ UNCHANGED <<impl, heap, list_mutex, current_size, op, arg, node, res, left,
                   callers, values_to_add, seq_id, hist>>

\* Mutant: the walk of push always goes on to tail.
for_push_continue_to_tail(t) == curr[t] # tail

\* Mutant: the comparator's arguments are swapped.
for_push_continue_swapped(t) == curr[t] # tail /\ comp(arg[t], val[curr[t]])

\* Mutant: the loop also passes the nodes equal to val, so that the new node
\* lands behind its equals.
for_push_continue_past_equals(t) == curr[t] # tail /\ ~comp(arg[t], val[curr[t]])

\* The loop test of find_and_lock_for_push, line 85.
for_push_continue(t) == curr[t] # tail /\ comp(val[curr[t]], arg[t])

\* lines 81/91 and 85: curr->lock(), then the loop test.
for_push_lock_curr(t) ==
    /\ pc[t] = "for_push_lock_curr"
    /\ CanLock(curr[t])
    /\ lock(t, curr[t])
    /\ pc' = [pc EXCEPT ![t] = IF for_push_continue(t) THEN "for_push_step"
                                ELSE "push_link"]
    /\ UNCHANGED <<impl, heap, list_mutex, current_size, op, arg, pred, curr, node,
                   res, left, callers, values_to_add, seq_id, hist>>

\* Mutant: the traversal unlocks curr as well before it moves on.
for_push_step_release_both(t) ==
    /\ pc[t] = "for_push_step"
    /\ node_mutex' = [node_mutex EXCEPT ![pred[t]] = NoThread, ![curr[t]] = NoThread]
    /\ pred' = [pred EXCEPT ![t] = curr[t]]
    /\ curr' = [curr EXCEPT ![t] = next[curr[t]]]
    /\ pc' = [pc EXCEPT ![t] = IF next[curr[t]] = NULL THEN "assert_failed"
                                ELSE "for_push_lock_curr"]
    /\ UNCHANGED <<impl, heap, list_mutex, current_size, op, arg, node, res, left,
                   callers, values_to_add, seq_id, hist>>

\* Mutant: pred stays where it is while curr moves on.
for_push_step_pred_stays(t) ==
    /\ pc[t] = "for_push_step"
    /\ unlock(t, pred[t])
    /\ curr' = [curr EXCEPT ![t] = next[curr[t]]]
    /\ pc' = [pc EXCEPT ![t] = IF next[curr[t]] = NULL THEN "assert_failed"
                                ELSE "for_push_lock_curr"]
    /\ UNCHANGED <<impl, heap, list_mutex, current_size, op, arg, pred, node, res,
                   left, callers, values_to_add, seq_id, hist>>

\* lines 87-90: pred->unlock(); pred = curr; curr = curr->next; assert(curr)
for_push_step(t) ==
    /\ pc[t] = "for_push_step"
    /\ unlock(t, pred[t])
    /\ pred' = [pred EXCEPT ![t] = curr[t]]
    /\ curr' = [curr EXCEPT ![t] = next[curr[t]]]
    /\ pc' = [pc EXCEPT ![t] = IF next[curr[t]] = NULL THEN "assert_failed"
                                ELSE "for_push_lock_curr"]
    /\ UNCHANGED <<impl, heap, list_mutex, current_size, op, arg, node, res, left,
                   callers, values_to_add, seq_id, hist>>

\* Mutant: the new node is never stored into pred->next.
pq_push_link_not_spliced(t) ==
    /\ pc[t] = "push_link"
    /\ next' = [next EXCEPT ![node[t]] = curr[t]]
    /\ abs' = Append(abs, arg[t])
    /\ added' = Tally(added, arg[t])
    /\ pc' = [pc EXCEPT ![t] = "push_size"]
    /\ UNCHANGED <<impl, head, tail, nodes, val, node_mutex, list_mutex, current_size,
                   op, arg, pred, curr, node, res, left, callers, values_to_add,
                   seq_id, expect, removed, pre>>

\* push, lines 167-168: new_node->next = curr; pred->next = new_node
pq_push_link(t) ==
    /\ pc[t] = "push_link"
    /\ next' = [next EXCEPT ![node[t]] = curr[t], ![pred[t]] = node[t]]
    /\ abs' = Append(abs, arg[t])
    /\ added' = Tally(added, arg[t])
    /\ pc' = [pc EXCEPT ![t] = "push_size"]
    /\ UNCHANGED <<impl, head, tail, nodes, val, node_mutex, list_mutex, current_size,
                   op, arg, pred, curr, node, res, left, callers, values_to_add, seq_id, expect,
                   removed, pre>>

\* push, line 170: current_size.fetch_add(1)
pq_push_size(t) ==
    /\ pc[t] = "push_size"
    /\ current_size' = fetch_add(current_size)
    /\ pc' = [pc EXCEPT ![t] = "push_unlock_curr"]
    /\ UNCHANGED <<impl, heap, node_mutex, list_mutex, op, arg, pred, curr, node,
                   res, left, callers, values_to_add, seq_id, hist>>

\* Mutant: curr is never unlocked.
pq_push_curr_kept_locked(t) ==
    /\ pc[t] = "push_unlock_curr"
    /\ pc' = [pc EXCEPT ![t] = "push_unlock_pred"]
    /\ UNCHANGED <<impl, heap, node_mutex, list_mutex, current_size, op, arg, pred,
                   curr, node, res, left, callers, values_to_add, seq_id, hist>>

\* push, line 173: curr->unlock()
pq_push_unlock_curr(t) ==
    /\ pc[t] = "push_unlock_curr"
    /\ unlock(t, curr[t])
    /\ pc' = [pc EXCEPT ![t] = "push_unlock_pred"]
    /\ UNCHANGED <<impl, heap, list_mutex, current_size, op, arg, pred, curr, node,
                   res, left, callers, values_to_add, seq_id, hist>>

\* push, line 174: pred->unlock(), and the return.
pq_push_unlock_pred(t) ==
    /\ pc[t] = "push_unlock_pred"
    /\ unlock(t, pred[t])
    /\ pc' = [pc EXCEPT ![t] = "done"]
    /\ UNCHANGED <<impl, heap, list_mutex, current_size, op, arg, pred, curr, node,
                   res, left, callers, values_to_add, seq_id, hist>>

pq_pop_call(t) ==
    /\ impl = "pq"
    /\ Call(t, "pop", DefaultVal, "pop_lock_head", NULL)
    /\ UNCHANGED <<impl, heap, node_mutex, list_mutex, current_size, res, callers, values_to_add,
                   seq_id, abs, expect, added, removed>>

\* pop, lines 196-199: pred_pred = head; pred_pred->lock();
\* node_to_delete = head->next; assert(node_to_delete)
pq_pop_lock_head(t) ==
    /\ pc[t] = "pop_lock_head"
    /\ CanLock(head)
    /\ lock(t, head)
    /\ pred' = [pred EXCEPT ![t] = head]
    /\ curr' = [curr EXCEPT ![t] = next[head]]
    /\ pc' = [pc EXCEPT ![t] = IF next[head] = NULL THEN "assert_failed"
                                ELSE "pop_lock_first"]
    /\ UNCHANGED <<impl, heap, list_mutex, current_size, op, arg, node, res, left,
                   callers, values_to_add, seq_id, hist>>

\* Mutant: pop does not walk on to the last data node.
pop_after_no_walk(c) == IF next[c] = NULL THEN "assert_failed" ELSE "pop_lock_tail"

\* The statement pop is at once node_to_delete = c is locked: the loop test of
\* line 211, then line 213 (next_node) or line 222 (tail_sentinel_locked).
pop_after(c) ==
    IF next[c] = NULL THEN "assert_failed"
    ELSE IF next[c] # tail THEN "pop_lock_next" ELSE "pop_lock_tail"

\* pop, lines 200-203: node_to_delete->lock(); the empty test; into the loop.
pq_pop_lock_first(t) ==
    /\ pc[t] = "pop_lock_first"
    /\ CanLock(curr[t])
    /\ lock(t, curr[t])
    /\ IF curr[t] = tail
       THEN /\ pc' = [pc EXCEPT ![t] = "pop_empty_unlock_tail"]
            /\ expect' = [expect EXCEPT ![t] = AbsPopValue]
            /\ abs' = AbsPopRest
            /\ UNCHANGED node
       ELSE /\ pc' = [pc EXCEPT ![t] = pop_after(curr[t])]
            /\ node' = [node EXCEPT ![t] = next[curr[t]]]
            /\ UNCHANGED <<expect, abs>>
    /\ UNCHANGED <<impl, heap, list_mutex, current_size, op, arg, pred, curr, res,
                   left, callers, values_to_add, seq_id, added, removed, pre>>

\* Mutant: the pop that found the queue empty decrements the counter.
pq_pop_empty_decrements(t) ==
    /\ pc[t] = "pop_empty_unlock_tail"
    /\ unlock(t, curr[t])
    /\ current_size' = fetch_sub(current_size)
    /\ pc' = [pc EXCEPT ![t] = "pop_empty_unlock_head"]
    /\ UNCHANGED <<impl, heap, list_mutex, op, arg, pred, curr, node, res, left,
                   callers, values_to_add, seq_id, hist>>

\* pop, line 205: node_to_delete->unlock()
pq_pop_empty_unlock_tail(t) ==
    /\ pc[t] = "pop_empty_unlock_tail"
    /\ unlock(t, curr[t])
    /\ pc' = [pc EXCEPT ![t] = "pop_empty_unlock_head"]
    /\ UNCHANGED <<impl, heap, list_mutex, current_size, op, arg, pred, curr, node,
                   res, left, callers, values_to_add, seq_id, hist>>

\* Mutant: the empty pop returns with head still locked.
pq_pop_empty_head_kept_locked(t) ==
    /\ pc[t] = "pop_empty_unlock_head"
    /\ res' = [res EXCEPT ![t] = nullopt]
    /\ pc' = [pc EXCEPT ![t] = "done"]
    /\ UNCHANGED <<impl, heap, node_mutex, list_mutex, current_size, op, arg, pred,
                   curr, node, left, callers, values_to_add, seq_id, hist>>

\* pop, lines 206-207: pred_pred->unlock(); return std::nullopt
pq_pop_empty_unlock_head(t) ==
    /\ pc[t] = "pop_empty_unlock_head"
    /\ unlock(t, pred[t])
    /\ res' = [res EXCEPT ![t] = nullopt]
    /\ pc' = [pc EXCEPT ![t] = "done"]
    /\ UNCHANGED <<impl, heap, list_mutex, current_size, op, arg, pred, curr, node,
                   left, callers, values_to_add, seq_id, hist>>

\* Mutant: pop moves on to next_node without taking its lock.
pq_pop_lock_next_not_taken(t) ==
    /\ pc[t] = "pop_lock_next"
    /\ pc' = [pc EXCEPT ![t] = "pop_advance"]
    /\ UNCHANGED <<impl, heap, node_mutex, list_mutex, current_size, op, arg, pred,
                   curr, node, res, left, callers, values_to_add, seq_id, hist>>

\* pop, line 215: next_node->lock()
pq_pop_lock_next(t) ==
    /\ pc[t] = "pop_lock_next"
    /\ CanLock(node[t])
    /\ lock(t, node[t])
    /\ pc' = [pc EXCEPT ![t] = "pop_advance"]
    /\ UNCHANGED <<impl, heap, list_mutex, current_size, op, arg, pred, curr, node,
                   res, left, callers, values_to_add, seq_id, hist>>

\* Mutant: pred_pred stays locked when pop moves on.
pq_pop_advance_keeps_pred(t) ==
    /\ pc[t] = "pop_advance"
    /\ pred' = [pred EXCEPT ![t] = curr[t]]
    /\ curr' = [curr EXCEPT ![t] = node[t]]
    /\ node' = [node EXCEPT ![t] = next[node[t]]]
    /\ pc' = [pc EXCEPT ![t] = pop_after(node[t])]
    /\ UNCHANGED <<impl, heap, node_mutex, list_mutex, current_size, op, arg, res,
                   left, callers, values_to_add, seq_id, hist>>

\* pop, lines 216-218, and the loop test again.
pq_pop_advance(t) ==
    /\ pc[t] = "pop_advance"
    /\ unlock(t, pred[t])
    /\ pred' = [pred EXCEPT ![t] = curr[t]]
    /\ curr' = [curr EXCEPT ![t] = node[t]]
    /\ node' = [node EXCEPT ![t] = next[node[t]]]
    /\ pc' = [pc EXCEPT ![t] = pop_after(node[t])]
    /\ UNCHANGED <<impl, heap, list_mutex, current_size, op, arg, res, left, callers, values_to_add,
                   seq_id, hist>>

\* pop, lines 222-223: tail_sentinel_locked = node_to_delete->next, and its lock.
pq_pop_lock_tail(t) ==
    /\ pc[t] = "pop_lock_tail"
    /\ CanLock(node[t])
    /\ lock(t, node[t])
    /\ pc' = [pc EXCEPT ![t] = "pop_take"]
    /\ UNCHANGED <<impl, heap, list_mutex, current_size, op, arg, pred, curr, node,
                   res, left, callers, values_to_add, seq_id, hist>>

\* Mutant: the value is taken from pred_pred.
pq_pop_take_value_of_pred(t) ==
    /\ pc[t] = "pop_take"
    /\ res' = [res EXCEPT ![t] = val[pred[t]]]
    /\ pc' = [pc EXCEPT ![t] = "pop_unlink"]
    /\ UNCHANGED <<impl, heap, node_mutex, list_mutex, current_size, op, arg, pred,
                   curr, node, left, callers, values_to_add, seq_id, hist>>

\* pop, line 226: T value_to_return = std::move(node_to_delete->val)
pq_pop_take(t) ==
    /\ pc[t] = "pop_take"
    /\ res' = [res EXCEPT ![t] = val[curr[t]]]
    /\ pc' = [pc EXCEPT ![t] = "pop_unlink"]
    /\ UNCHANGED <<impl, heap, node_mutex, list_mutex, current_size, op, arg, pred,
                   curr, node, left, callers, values_to_add, seq_id, hist>>

\* Mutant: the unlink stores tail's next pointer, which is null.
pq_pop_unlink_past_tail(t) ==
    /\ pc[t] = "pop_unlink"
    /\ next' = [next EXCEPT ![pred[t]] = next[node[t]]]
    /\ expect' = [expect EXCEPT ![t] = AbsPopValue]
    /\ abs' = AbsPopRest
    /\ removed' = Tally(removed, val[curr[t]])
    /\ pc' = [pc EXCEPT ![t] = "pop_size"]
    /\ UNCHANGED <<impl, head, tail, nodes, val, node_mutex, list_mutex, current_size,
                   op, arg, pred, curr, node, res, left, callers, values_to_add,
                   seq_id, added, pre>>

\* pop, line 229: pred_pred->next = tail_sentinel_locked
pq_pop_unlink(t) ==
    /\ pc[t] = "pop_unlink"
    /\ next' = [next EXCEPT ![pred[t]] = node[t]]
    /\ expect' = [expect EXCEPT ![t] = AbsPopValue]
    /\ abs' = AbsPopRest
    /\ removed' = Tally(removed, val[curr[t]])
    /\ pc' = [pc EXCEPT ![t] = "pop_size"]
    /\ UNCHANGED <<impl, head, tail, nodes, val, node_mutex, list_mutex, current_size,
                   op, arg, pred, curr, node, res, left, callers, values_to_add,
                   seq_id, added, pre>>

\* Mutant: pop leaves the counter alone.
pq_pop_size_skipped(t) ==
    /\ pc[t] = "pop_size"
    /\ pc' = [pc EXCEPT ![t] = "pop_unlock_tail"]
    /\ UNCHANGED <<impl, heap, node_mutex, list_mutex, current_size, op, arg, pred,
                   curr, node, res, left, callers, values_to_add, seq_id, hist>>

\* pop, line 231: current_size.fetch_sub(1)
pq_pop_size(t) ==
    /\ pc[t] = "pop_size"
    /\ current_size' = fetch_sub(current_size)
    /\ pc' = [pc EXCEPT ![t] = "pop_unlock_tail"]
    /\ UNCHANGED <<impl, heap, node_mutex, list_mutex, op, arg, pred, curr, node,
                   res, left, callers, values_to_add, seq_id, hist>>

\* Mutant: pred_pred is released first.
pq_pop_unlock_tail_pred_first(t) ==
    /\ pc[t] = "pop_unlock_tail"
    /\ unlock(t, pred[t])
    /\ pc' = [pc EXCEPT ![t] = "pop_unlock_victim"]
    /\ UNCHANGED <<impl, heap, list_mutex, current_size, op, arg, pred, curr, node,
                   res, left, callers, values_to_add, seq_id, hist>>

\* pop, line 234: tail_sentinel_locked->unlock()
pq_pop_unlock_tail(t) ==
    /\ pc[t] = "pop_unlock_tail"
    /\ unlock(t, node[t])
    /\ pc' = [pc EXCEPT ![t] = "pop_unlock_victim"]
    /\ UNCHANGED <<impl, heap, list_mutex, current_size, op, arg, pred, curr, node,
                   res, left, callers, values_to_add, seq_id, hist>>

\* Mutant: the victim is never unlocked.
pq_pop_unlock_victim_skipped(t) ==
    /\ pc[t] = "pop_unlock_victim"
    /\ pc' = [pc EXCEPT ![t] = "pop_unlock_pred"]
    /\ UNCHANGED <<impl, heap, node_mutex, list_mutex, current_size, op, arg, pred,
                   curr, node, res, left, callers, values_to_add, seq_id, hist>>

\* pop, line 235: node_to_delete->unlock()
pq_pop_unlock_victim(t) ==
    /\ pc[t] = "pop_unlock_victim"
    /\ unlock(t, curr[t])
    /\ pc' = [pc EXCEPT ![t] = "pop_unlock_pred"]
    /\ UNCHANGED <<impl, heap, list_mutex, current_size, op, arg, pred, curr, node,
                   res, left, callers, values_to_add, seq_id, hist>>

\* pop, line 236: pred_pred->unlock()
pq_pop_unlock_pred(t) ==
    /\ pc[t] = "pop_unlock_pred"
    /\ unlock(t, pred[t])
    /\ pc' = [pc EXCEPT ![t] = "pop_delete"]
    /\ UNCHANGED <<impl, heap, list_mutex, current_size, op, arg, pred, curr, node,
                   res, left, callers, values_to_add, seq_id, hist>>

\* pop, lines 239-241: delete node_to_delete; return the value
pq_pop_delete(t) ==
    /\ pc[t] = "pop_delete"
    /\ Free(curr[t])
    /\ pc' = [pc EXCEPT ![t] = "done"]
    /\ UNCHANGED <<impl, node_mutex, list_mutex, current_size, op, arg, pred, curr,
                   node, res, left, callers, values_to_add, seq_id, hist>>

PQStep(t) ==
    \/ pq_push_call(t)
    \/ for_push_lock_pred(t)
    \/ for_push_lock_curr(t)
    \/ for_push_step(t)
    \/ pq_push_link(t)
    \/ pq_push_size(t)
    \/ pq_push_unlock_curr(t)
    \/ pq_push_unlock_pred(t)
    \/ pq_pop_call(t)
    \/ pq_pop_lock_head(t)
    \/ pq_pop_lock_first(t)
    \/ pq_pop_empty_unlock_tail(t)
    \/ pq_pop_empty_unlock_head(t)
    \/ pq_pop_lock_next(t)
    \/ pq_pop_advance(t)
    \/ pq_pop_lock_tail(t)
    \/ pq_pop_take(t)
    \/ pq_pop_unlink(t)
    \/ pq_pop_size(t)
    \/ pq_pop_unlock_tail(t)
    \/ pq_pop_unlock_victim(t)
    \/ pq_pop_unlock_pred(t)
    \/ pq_pop_delete(t)

\* ------------------------- sequential and coarse-locked set: the traversal
RECURSIVE find_from(_, _, _)
\* The loop of find_node / find_node_unsafe (set_sequential.h 37-41,
\* set_coarse.h 44-48) from pred p: the node before v's position.
find_from(p, v, fuel) ==
    LET c == next[p] IN
    IF fuel > 0 /\ c # NULL /\ c # tail /\ val[c] < v
    THEN find_from(c, v, fuel - 1)
    ELSE p

find_node(v) == find_from(head, v, PoolSize)

\* Mutant: the coarse set's helper returns head without walking.
find_node_unsafe_no_walk(v) == head

find_node_unsafe(v) == find_from(head, v, PoolSize)

\* ---------------------------------- sequential set (set_sequential.h)
\* One action is one whole call: the sequential set has a single caller.
seq_contains(t) ==
    /\ impl = "seq"
    /\ \E v \in Values :
          /\ Call(t, "contains", v, "done", NULL)
          /\ LET p == find_node(v)
                 c == next[p]
             IN /\ res' = [res EXCEPT ![t] = (c # tail /\ val[c] = v)]
                /\ expect' = [expect EXCEPT ![t] = v \in abs]
    /\ UNCHANGED <<impl, heap, node_mutex, list_mutex, current_size, callers, values_to_add, seq_id,
                   abs, added, removed>>

seq_add(t) ==
    /\ impl = "seq"
    /\ \E v \in Values :
          /\ Call(t, "add", v, "done", NULL)
          /\ LET p == find_node(v)
                 c == next[p]
             IN IF c # tail /\ val[c] = v
                THEN /\ res' = [res EXCEPT ![t] = FALSE]
                     /\ UNCHANGED <<heap, added>>
                ELSE /\ nodes' = nodes \cup {NewCell}
                     /\ val' = [val EXCEPT ![NewCell] = v]
                     /\ next' = [next EXCEPT ![NewCell] = c, ![p] = NewCell]
                     /\ res' = [res EXCEPT ![t] = TRUE]
                     /\ added' = [added EXCEPT ![v] = @ + 1]
                     /\ UNCHANGED <<head, tail>>
          /\ expect' = [expect EXCEPT ![t] = v \notin abs]
          /\ abs' = abs \cup {v}
    /\ UNCHANGED <<impl, node_mutex, list_mutex, current_size, callers, values_to_add, seq_id,
                   removed>>

seq_remove(t) ==
    /\ impl = "seq"
    /\ \E v \in Values :
          /\ Call(t, "remove", v, "done", NULL)
          /\ LET p == find_node(v)
                 c == next[p]
             IN IF c # tail /\ val[c] = v
                THEN /\ nodes' = nodes \ {c}
                     /\ val' = [val EXCEPT ![c] = DefaultVal]
                     /\ next' = [next EXCEPT ![p] = next[c], ![c] = NULL]
                     /\ res' = [res EXCEPT ![t] = TRUE]
                     /\ removed' = [removed EXCEPT ![v] = @ + 1]
                     /\ UNCHANGED <<head, tail>>
                ELSE /\ res' = [res EXCEPT ![t] = FALSE]
                     /\ UNCHANGED <<heap, removed>>
          /\ expect' = [expect EXCEPT ![t] = v \in abs]
          /\ abs' = abs \ {v}
    /\ UNCHANGED <<impl, node_mutex, list_mutex, current_size, callers, values_to_add, seq_id,
                   added>>

SeqStep(t) == seq_contains(t) \/ seq_add(t) \/ seq_remove(t)

\* -------------------------------------- coarse-locked set (set_coarse.h)
coarse_call(t) ==
    /\ impl = "coarse"
    /\ \E o \in {"add", "remove", "contains"}, v \in Values :
          Call(t, o, v, "list_lock", NULL)
    /\ UNCHANGED <<impl, heap, node_mutex, list_mutex, current_size, res, callers, values_to_add,
                   seq_id, abs, expect, added, removed>>

\* The calls that take std::shared_lock (lines 107, 181); add and remove take
\* std::unique_lock (lines 116, 148).
shared_lock(t) == op[t] \in {"contains", "check_invariants"}

\* Mutant: the exclusive side is granted while readers are inside.
CanLockUnique_among_readers == list_mutex.writer = NoThread

\* std::shared_mutex: the exclusive side excludes everyone, the shared side
\* excludes the writer.
CanLockUnique == list_mutex.writer = NoThread /\ list_mutex.readers = {}
CanLockShared == list_mutex.writer = NoThread

\* Mutant: add and remove take the shared side too.
coarse_lock_all_shared(t) ==
    /\ pc[t] = "list_lock"
    /\ CanLockShared
    /\ list_mutex' = [list_mutex EXCEPT !.readers = @ \cup {t}]
    /\ pc' = [pc EXCEPT ![t] = "find"]
    /\ UNCHANGED <<impl, heap, node_mutex, current_size, op, arg, pred, curr, node,
                   res, left, callers, values_to_add, seq_id, hist>>

\* lines 107, 116, 148, 181: shared_lock in contains and check_invariants,
\* unique_lock in add and remove.
coarse_lock(t) ==
    /\ pc[t] = "list_lock"
    /\ IF shared_lock(t)
       THEN /\ CanLockShared
            /\ list_mutex' = [list_mutex EXCEPT !.readers = @ \cup {t}]
       ELSE /\ CanLockUnique
            /\ list_mutex' = [list_mutex EXCEPT !.writer = t]
    /\ pc' = [pc EXCEPT ![t] = IF op[t] = "check_invariants" THEN op[t] ELSE "find"]
    /\ UNCHANGED <<impl, heap, node_mutex, current_size, op, arg, pred, curr, node,
                   res, left, callers, values_to_add, seq_id, hist>>

\* lines 108-109, 117-118, 149-150: pred = find_node_unsafe(val); curr = pred->next
coarse_find(t) ==
    /\ pc[t] = "find"
    /\ pred' = [pred EXCEPT ![t] = find_node_unsafe(arg[t])]
    /\ curr' = [curr EXCEPT ![t] = next[find_node_unsafe(arg[t])]]
    /\ pc' = [pc EXCEPT ![t] = op[t]]
    /\ UNCHANGED <<impl, heap, node_mutex, list_mutex, current_size, op, arg, node,
                   res, left, callers, values_to_add, seq_id, hist>>

\* contains, line 110.
coarse_contains(t) ==
    /\ impl = "coarse" /\ pc[t] = "contains"
    /\ res' = [res EXCEPT ![t] = found(t)]
    /\ expect' = [expect EXCEPT ![t] = arg[t] \in abs]
    /\ pc' = [pc EXCEPT ![t] = "list_unlock"]
    /\ UNCHANGED <<impl, heap, node_mutex, list_mutex, current_size, op, arg, pred,
                   curr, node, left, callers, values_to_add, seq_id, abs, added, removed, pre>>

\* Mutant: the counter is bumped for a duplicate as well.
coarse_add_counts_duplicates(t) ==
    /\ impl = "coarse" /\ pc[t] = "add"
    /\ IF found(t)
       THEN /\ res' = [res EXCEPT ![t] = FALSE]
            /\ UNCHANGED <<heap, added>>
       ELSE /\ nodes' = nodes \cup {NewCell}
            /\ val' = [val EXCEPT ![NewCell] = arg[t]]
            /\ next' = [next EXCEPT ![NewCell] = curr[t], ![pred[t]] = NewCell]
            /\ res' = [res EXCEPT ![t] = TRUE]
            /\ added' = [added EXCEPT ![arg[t]] = @ + 1]
            /\ UNCHANGED <<head, tail>>
    /\ current_size' = fetch_add(current_size)
    /\ expect' = [expect EXCEPT ![t] = arg[t] \notin abs]
    /\ abs' = abs \cup {arg[t]}
    /\ pc' = [pc EXCEPT ![t] = "list_unlock"]
    /\ UNCHANGED <<impl, node_mutex, list_mutex, op, arg, pred, curr, node, left,
                   callers, values_to_add, seq_id, removed, pre>>

\* add, lines 121-141.
coarse_add(t) ==
    /\ impl = "coarse" /\ pc[t] = "add"
    /\ IF found(t)
       THEN /\ res' = [res EXCEPT ![t] = FALSE]
            /\ UNCHANGED <<heap, current_size, added>>
       ELSE /\ nodes' = nodes \cup {NewCell}
            /\ val' = [val EXCEPT ![NewCell] = arg[t]]
            /\ next' = [next EXCEPT ![NewCell] = curr[t], ![pred[t]] = NewCell]
            /\ current_size' = fetch_add(current_size)
            /\ res' = [res EXCEPT ![t] = TRUE]
            /\ added' = [added EXCEPT ![arg[t]] = @ + 1]
            /\ UNCHANGED <<head, tail>>
    /\ expect' = [expect EXCEPT ![t] = arg[t] \notin abs]
    /\ abs' = abs \cup {arg[t]}
    /\ pc' = [pc EXCEPT ![t] = "list_unlock"]
    /\ UNCHANGED <<impl, node_mutex, list_mutex, op, arg, pred, curr, node, left,
                   callers, values_to_add, seq_id, removed, pre>>

\* remove, lines 153-167.
coarse_remove(t) ==
    /\ impl = "coarse" /\ pc[t] = "remove"
    /\ IF found(t)
       THEN /\ nodes' = nodes \ {curr[t]}
            /\ val' = [val EXCEPT ![curr[t]] = DefaultVal]
            /\ next' = [next EXCEPT ![pred[t]] = next[curr[t]], ![curr[t]] = NULL]
            /\ current_size' = fetch_sub(current_size)
            /\ res' = [res EXCEPT ![t] = TRUE]
            /\ removed' = [removed EXCEPT ![arg[t]] = @ + 1]
            /\ UNCHANGED <<head, tail>>
       ELSE /\ res' = [res EXCEPT ![t] = FALSE]
            /\ UNCHANGED <<heap, current_size, removed>>
    /\ expect' = [expect EXCEPT ![t] = arg[t] \in abs]
    /\ abs' = abs \ {arg[t]}
    /\ pc' = [pc EXCEPT ![t] = "list_unlock"]
    /\ UNCHANGED <<impl, node_mutex, list_mutex, op, arg, pred, curr, node, left,
                   callers, values_to_add, seq_id, added, pre>>

\* The lock's destructor at the return (lines 111, 142, 168, 188-201).
coarse_unlock(t) ==
    /\ pc[t] = "list_unlock"
    /\ list_mutex' = IF shared_lock(t)
                     THEN [list_mutex EXCEPT !.readers = @ \ {t}]
                     ELSE [list_mutex EXCEPT !.writer = NoThread]
    /\ pc' = [pc EXCEPT ![t] = "done"]
    /\ UNCHANGED <<impl, heap, node_mutex, current_size, op, arg, pred, curr, node,
                   res, left, callers, values_to_add, seq_id, hist>>

CoarseStep(t) ==
    \/ coarse_call(t)
    \/ coarse_lock(t)
    \/ coarse_find(t)
    \/ coarse_contains(t)
    \/ coarse_add(t)
    \/ coarse_remove(t)
    \/ coarse_unlock(t)

\* size(): the sequential set counts the data nodes (set_sequential.h
\* 139-149), the others read the counter.
RECURSIVE count_from(_, _)
count_from(c, fuel) ==
    IF c = tail \/ c = NULL \/ fuel = 0 THEN 0 ELSE 1 + count_from(next[c], fuel - 1)
size == IF impl = "seq" THEN count_from(next[head], PoolSize) ELSE current_size

\* empty() of the queue (pq_fine.h 244-248).
empty == current_size = 0

\* contains(v) called on a collection no other call is working on: the
\* traversal of find_node / find_node_unsafe / find_and_lock_hoh, which then
\* meets no held lock, and the equality test at its landing pair.
contains(v) == LET c == next[find_node(v)] IN c # tail /\ val[c] = v

RECURSIVE set_check_from(_, _, _)
\* The loop of the sets' check_invariants (set_fine.h 284-294) at pred = p,
\* curr = c.
set_check_from(p, c, fuel) ==
    IF c = tail THEN next[p] = tail
    ELSE IF c = NULL \/ fuel = 0 THEN FALSE
    ELSE IF val[p] > val[c] THEN FALSE
    ELSE set_check_from(c, next[c], fuel - 1)

\* check_invariants of the three sets: the structure test, then the loop.
set_check_invariants ==
    IF head = NULL \/ tail = NULL \/ next[head] = NULL THEN FALSE
    ELSE set_check_from(head, next[head], PoolSize)

RECURSIVE pq_check_from(_, _, _, _)
\* The loop of the queue's check_invariants (pq_fine.h 265-281) at pred = p,
\* curr = c, count = n: TRUE iff every assert from here on passes.
pq_check_from(p, c, n, fuel) ==
    IF c = tail THEN next[p] = tail /\ n = current_size
    ELSE IF c = NULL \/ fuel = 0 THEN FALSE
    ELSE IF comp(val[c], val[p]) THEN FALSE
    ELSE pq_check_from(c, next[c], n + 1, fuel - 1)

pq_check_asserts ==
    head # NULL /\ tail # NULL /\ pq_check_from(head, next[head], 0, PoolSize)

\* check_invariants(): the outcomes a call on the collection as it stands can
\* have.  The sets return the audit's verdict.  The queue audits by assert:
\* it returns true when every assert passes; when one fails the build with
\* asserts aborts and the build without them (NDEBUG) returns true.
check_invariants ==
    IF impl = "pq"
    THEN (IF pq_check_asserts THEN {"true"} ELSE {"aborted", "true"})
    ELSE (IF set_check_invariants THEN {"true"} ELSE {"false"})

Step(t) == SeqStep(t) \/ CoarseStep(t) \/ FineStep(t) \/ PQStep(t)

Next == \E t \in Threads : Step(t)

Spec == Init /\ [][Next]_vars

\* One thread drives the collection.
InitOne == InitWith({1}, [t \in Threads |-> SeqCalls], <<>>)
SpecOne == InitOne /\ [][Next]_vars

\* Threads are scheduled fairly; a thread blocked on a mutex is not enabled.
LiveSpec == Init /\ [][Next]_vars /\ \A t \in Threads : WF_vars(Step(t))

\* The collection used by one thread or shared by all of them.
InitAny == Init \/ InitOne
SpecAny == InitAny /\ [][Next]_vars

\* ------------------------------------------- operator new may throw
\* The constructors, statement by statement, run by thread t; an allocation
\* either yields the lowest free cell or throws std::bad_alloc.
InitCtor ==
    /\ impl \in Impls
    /\ head = NULL /\ tail = NULL
    /\ nodes = {}
    /\ val = [c \in Cells |-> DefaultVal]
    /\ next = [c \in Cells |-> NULL]
    /\ node_mutex = [c \in Cells |-> NoThread]
    /\ list_mutex = [writer |-> NoThread, readers |-> {}]
    /\ current_size = 0
    /\ pc = [t \in Threads |-> IF t = 1 THEN "ctor" ELSE "idle"]
    /\ op = [t \in Threads |-> "none"]
    /\ arg = [t \in Threads |-> DefaultVal]
    /\ pred = [t \in Threads |-> NULL]
    /\ curr = [t \in Threads |-> NULL]
    /\ node = [t \in Threads |-> NULL]
    /\ res = [t \in Threads |-> IF impl = "pq" THEN nullopt ELSE FALSE]
    /\ callers = {}
    /\ values_to_add = <<>>
    /\ left = [t \in Threads |-> 0]
    /\ seq_id = 1
    /\ abs = IF impl = "pq" THEN <<>> ELSE {}
    /\ expect = [t \in Threads |-> IF impl = "pq" THEN nullopt ELSE FALSE]
    /\ added = IF impl = "pq" THEN NoTally ELSE [v \in Values |-> 0]
    /\ removed = IF impl = "pq" THEN NoTally ELSE [v \in Values |-> 0]
    /\ pre = [chain |-> <<>>, vals |-> <<>>, size |-> 0, mutex |-> node_mutex,
              calls |-> <<>>, earlier |-> NoEarlier]

\* The constructor returns: the collection goes to the thread that built it,
\* or to all the threads of a concurrent test.
ctor_returns(t) ==
    /\ pc' = [pc EXCEPT ![t] = "idle"]
    /\ \E cs \in {{t}, Threads} :
          /\ callers' = (IF impl = "seq" THEN {t} ELSE cs)
          /\ left' = [u \in Threads |->
                        IF u \notin callers' THEN 0
                        ELSE IF callers' = {t} THEN SeqCalls ELSE MaxCalls]

\* set constructors, line 101: tail = new FineNode<T>(max_val, nullptr)
set_ctor_new_tail(t) ==
    /\ impl # "pq" /\ pc[t] = "ctor"
    /\ tail' = NewCell
    /\ nodes' = nodes \cup {NewCell}
    /\ val' = [val EXCEPT ![NewCell] = max_val]
    /\ next' = [next EXCEPT ![NewCell] = NULL]
    /\ pc' = [pc EXCEPT ![t] = "ctor_new_head"]
    /\ UNCHANGED <<impl, head, node_mutex, list_mutex, current_size, op, arg, pred,
                   curr, node, res, left, callers, values_to_add, seq_id, hist>>

\* line 101 throws: control goes to the catch of line 104.
set_ctor_new_tail_bad_alloc(t) ==
    /\ impl # "pq" /\ pc[t] = "ctor"
    /\ pc' = [pc EXCEPT ![t] = "ctor_catch"]
    /\ UNCHANGED <<impl, heap, node_mutex, list_mutex, current_size, op, arg, pred,
                   curr, node, res, left, callers, values_to_add, seq_id, hist>>

\* line 102: head = new FineNode<T>(min_val, tail), and the return.
set_ctor_new_head(t) ==
    /\ impl # "pq" /\ pc[t] = "ctor_new_head"
    /\ head' = NewCell
    /\ nodes' = nodes \cup {NewCell}
    /\ val' = [val EXCEPT ![NewCell] = min_val]
    /\ next' = [next EXCEPT ![NewCell] = tail]
    /\ ctor_returns(t)
    /\ UNCHANGED <<impl, tail, node_mutex, list_mutex, current_size, op, arg, pred,
                   curr, node, res, values_to_add, seq_id, hist>>

\* line 102 throws.
set_ctor_new_head_bad_alloc(t) ==
    /\ impl # "pq" /\ pc[t] = "ctor_new_head"
    /\ pc' = [pc EXCEPT ![t] = "ctor_catch"]
    /\ UNCHANGED <<impl, heap, node_mutex, list_mutex, current_size, op, arg, pred,
                   curr, node, res, left, callers, values_to_add, seq_id, hist>>

\* lines 104-109: delete head; delete tail (of a null pointer: nothing);
\* throw std::runtime_error
set_ctor_catch(t) ==
    /\ pc[t] = "ctor_catch"
    /\ nodes' = nodes \ {head, tail}
    /\ val' = [c \in Cells |-> IF c \in {head, tail} THEN DefaultVal ELSE val[c]]
    /\ next' = [c \in Cells |-> IF c \in {head, tail} THEN NULL ELSE next[c]]
    /\ pc' = [pc EXCEPT ![t] = "ctor_failed"]
    /\ UNCHANGED <<impl, head, tail, node_mutex, list_mutex, current_size, op, arg,
                   pred, curr, node, res, left, callers, values_to_add, seq_id, hist>>

\* queue constructor, line 110: head = new FinePQNode<T>()
pq_ctor_new_head(t) ==
    /\ impl = "pq" /\ pc[t] = "ctor"
    /\ head' = NewCell
    /\ nodes' = nodes \cup {NewCell}
    /\ pc' = [pc EXCEPT ![t] = "ctor_new_tail"]
    /\ UNCHANGED <<impl, tail, val, next, node_mutex, list_mutex, current_size, op,
                   arg, pred, curr, node, res, left, callers, values_to_add, seq_id,
                   hist>>

\* line 110 throws: no handler encloses it, the exception leaves the
\* constructor.
pq_ctor_new_head_bad_alloc(t) ==
    /\ impl = "pq" /\ pc[t] = "ctor"
    /\ pc' = [pc EXCEPT ![t] = "ctor_failed"]
    /\ UNCHANGED <<impl, heap, node_mutex, list_mutex, current_size, op, arg, pred,
                   curr, node, res, left, callers, values_to_add, seq_id, hist>>

\* line 111: tail = new FinePQNode<T>()
pq_ctor_new_tail(t) ==
    /\ impl = "pq" /\ pc[t] = "ctor_new_tail"
    /\ tail' = NewCell
    /\ nodes' = nodes \cup {NewCell}
    /\ pc' = [pc EXCEPT ![t] = "ctor_values"]
    /\ UNCHANGED <<impl, head, val, next, node_mutex, list_mutex, current_size, op,
                   arg, pred, curr, node, res, left, callers, values_to_add, seq_id,
                   hist>>

\* line 111 throws: no handler encloses it either, and the destructor of an
\* object whose constructor threw does not run.
pq_ctor_new_tail_bad_alloc(t) ==
    /\ impl = "pq" /\ pc[t] = "ctor_new_tail"
    /\ pc' = [pc EXCEPT ![t] = "ctor_failed"]
    /\ UNCHANGED <<impl, heap, node_mutex, list_mutex, current_size, op, arg, pred,
                   curr, node, res, left, callers, values_to_add, seq_id, hist>>

\* lines 114-126: the sentinels' values (a pair of ints: nothing throws),
\* head->next = tail, and the return.
pq_ctor_values(t) ==
    /\ impl = "pq" /\ pc[t] = "ctor_values"
    /\ val' = [val EXCEPT ![head] = <<min_val, 0>>, ![tail] = <<max_val, 0>>]
    /\ next' = [next EXCEPT ![head] = tail]
    /\ ctor_returns(t)
    /\ UNCHANGED <<impl, head, tail, nodes, node_mutex, list_mutex, current_size, op,
                   arg, pred, curr, node, res, values_to_add, seq_id, hist>>

CtorStep(t) ==
    \/ set_ctor_new_tail(t)
    \/ set_ctor_new_tail_bad_alloc(t)
    \/ set_ctor_new_head(t)
    \/ set_ctor_new_head_bad_alloc(t)
    \/ set_ctor_catch(t)
    \/ pq_ctor_new_head(t)
    \/ pq_ctor_new_head_bad_alloc(t)
    \/ pq_ctor_new_tail(t)
    \/ pq_ctor_new_tail_bad_alloc(t)
    \/ pq_ctor_values(t)

\* set_sequential.h 104-119: new SeqNode throws; the catch rethrows.
seq_add_bad_alloc(t) ==
    /\ impl = "seq"
    /\ \E v \in Values :
          /\ Call(t, "add", v, "thrown", NULL)
          /\ LET c == next[find_node(v)] IN ~(c # tail /\ val[c] = v)
    /\ UNCHANGED <<impl, heap, node_mutex, list_mutex, current_size, res, callers,
                   values_to_add, seq_id, abs, expect, added, removed>>

\* set_coarse.h 131, 136-139: new CoarseNode throws; the catch rethrows with
\* the unique_lock still to be destroyed.
coarse_add_bad_alloc(t) ==
    /\ impl = "coarse" /\ pc[t] = "add"
    /\ ~found(t)
    /\ pc' = [pc EXCEPT ![t] = "unwind"]
    /\ UNCHANGED <<impl, heap, node_mutex, list_mutex, current_size, op, arg, pred,
                   curr, node, res, left, callers, values_to_add, seq_id, hist>>

\* The unique_lock's destructor as the exception leaves add.
coarse_unwind_unlock(t) ==
    /\ pc[t] = "unwind"
    /\ list_mutex' = [list_mutex EXCEPT !.writer = NoThread]
    /\ pc' = [pc EXCEPT ![t] = "thrown"]
    /\ UNCHANGED <<impl, heap, node_mutex, current_size, op, arg, pred, curr, node,
                   res, left, callers, values_to_add, seq_id, hist>>

\* set_fine.h 180, 187: new FineNode throws; control goes to the catch.
fine_add_bad_alloc(t) ==
    /\ impl = "fine" /\ pc[t] = "add"
    /\ ~found(t)
    /\ pc' = [pc EXCEPT ![t] = "catch_unlock_curr"]
    /\ UNCHANGED <<impl, heap, node_mutex, list_mutex, current_size, op, arg, pred,
                   curr, node, res, left, callers, values_to_add, seq_id, hist>>

\* Mutant: the handler unlocks pred where it should unlock curr.
fine_catch_unlock_curr_unlocks_pred(t) ==
    /\ pc[t] = "catch_unlock_curr"
    /\ IF curr[t] # NULL THEN unlock(t, pred[t]) ELSE UNCHANGED node_mutex
    /\ pc' = [pc EXCEPT ![t] = "catch_unlock_pred"]
    /\ UNCHANGED <<impl, heap, list_mutex, current_size, op, arg, pred, curr, node,
                   res, left, callers, values_to_add, seq_id, hist>>

\* lines 190-191: if (curr) curr->unlock()
fine_catch_unlock_curr(t) ==
    /\ pc[t] = "catch_unlock_curr"
    /\ IF curr[t] # NULL THEN unlock(t, curr[t]) ELSE UNCHANGED node_mutex
    /\ pc' = [pc EXCEPT ![t] = "catch_unlock_pred"]
    /\ UNCHANGED <<impl, heap, list_mutex, current_size, op, arg, pred, curr, node,
                   res, left, callers, values_to_add, seq_id, hist>>

\* Mutant: the handler rethrows with pred still locked.
fine_catch_unlock_pred_skipped(t) ==
    /\ pc[t] = "catch_unlock_pred"
    /\ pc' = [pc EXCEPT ![t] = "thrown"]
    /\ UNCHANGED <<impl, heap, node_mutex, list_mutex, current_size, op, arg, pred,
                   curr, node, res, left, callers, values_to_add, seq_id, hist>>

\* lines 192-194: if (pred) pred->unlock(); throw std::runtime_error
fine_catch_unlock_pred(t) ==
    /\ pc[t] = "catch_unlock_pred"
    /\ IF pred[t] # NULL THEN unlock(t, pred[t]) ELSE UNCHANGED node_mutex
    /\ pc' = [pc EXCEPT ![t] = "thrown"]
    /\ UNCHANGED <<impl, heap, list_mutex, current_size, op, arg, pred, curr, node,
                   res, left, callers, values_to_add, seq_id, hist>>

\* pq_fine.h 157: new FinePQNode throws before push has locked anything.
pq_push_bad_alloc(t) ==
    /\ impl = "pq"
    /\ \E p \in Values : Call(t, "push", <<p, seq_id>>, "thrown", NULL)
    /\ seq_id' = seq_id + 1
    /\ UNCHANGED <<impl, heap, node_mutex, list_mutex, current_size, res, callers,
                   values_to_add, abs, expect, added, removed>>

BadAllocStep(t) ==
    \/ seq_add_bad_alloc(t)
    \/ coarse_add_bad_alloc(t)
    \/ coarse_unwind_unlock(t)
    \/ fine_add_bad_alloc(t)
    \/ fine_catch_unlock_curr(t)
    \/ fine_catch_unlock_pred(t)
    \/ pq_push_bad_alloc(t)

\* Construction, then calls, with allocations free to fail.
NextAlloc == \E t \in Threads : Step(t) \/ CtorStep(t) \/ BadAllocStep(t)
SpecAlloc == InitCtor /\ [][NextAlloc]_vars

\* ------------------------------ the coarse set with check_invariants calls
\* check_invariants() of the coarse set, called like any other operation.
coarse_check_call(t) ==
    /\ impl = "coarse"
    /\ Call(t, "check_invariants", DefaultVal, "list_lock", NULL)
    /\ UNCHANGED <<impl, heap, node_mutex, list_mutex, current_size, res, callers,
                   values_to_add, seq_id, abs, expect, added, removed>>

\* lines 183-201, under the shared lock: the walk and its verdict.
coarse_check_invariants(t) ==
    /\ impl = "coarse" /\ pc[t] = "check_invariants"
    /\ \E r \in check_invariants : res' = [res EXCEPT ![t] = r]
    /\ pc' = [pc EXCEPT ![t] = "list_unlock"]
    /\ UNCHANGED <<impl, heap, node_mutex, list_mutex, current_size, op, arg, pred,
                   curr, node, left, callers, values_to_add, seq_id, hist>>

InitCoarse == Init /\ impl = "coarse"
CoarseAllStep(t) ==
    \/ coarse_call(t)
    \/ coarse_check_call(t)
    \/ coarse_lock(t)
    \/ coarse_find(t)
    \/ coarse_contains(t)
    \/ coarse_add(t)
    \/ coarse_remove(t)
    \/ coarse_check_invariants(t)
    \/ coarse_unlock(t)
NextCoarse == \E t \in Threads : CoarseAllStep(t)
SpecCoarse == InitCoarse /\ [][NextCoarse]_vars

\* ------------- the fine set and the queue with check_invariants calls
\* check_invariants() of the fine-locked set and of the queue (set_fine.h
\* 272-295, pq_fine.h 256-284) takes no lock.  It is called as the tests call
\* it: by a thread, while no other call is in progress, and no call starts
\* before it has returned.
check_invariants_call(t) ==
    /\ impl \in {"fine", "pq"}
    /\ \A u \in Threads \ {t} : pc[u] \in {"idle", "done"}
    /\ Call(t, "check_invariants", DefaultVal, "check_start", NULL)
    /\ UNCHANGED <<impl, heap, node_mutex, list_mutex, current_size, res, callers,
                   values_to_add, seq_id, abs, expect, added, removed>>

\* set_fine.h 278-279, pq_fine.h 259-260: pred = head; curr = head->next
check_invariants_start(t) ==
    /\ pc[t] = "check_start"
    /\ pred' = [pred EXCEPT ![t] = head]
    /\ curr' = [curr EXCEPT ![t] = next[head]]
    /\ pc' = [pc EXCEPT ![t] = "check_walk"]
    /\ UNCHANGED <<impl, heap, node_mutex, list_mutex, current_size, op, arg, node,
                   res, left, callers, values_to_add, seq_id, hist>>

\* The walk goes on from pred, curr: curr is a node before tail and in order
\* after pred (set_fine.h 284-289, pq_fine.h 265-271).
check_invariants_continue(t) ==
    /\ curr[t] # tail /\ curr[t] # NULL
    /\ IF impl = "pq" THEN ~comp(val[curr[t]], val[pred[t]])
       ELSE ~(val[pred[t]] > val[curr[t]])

\* set_fine.h 284-294, pq_fine.h 265-283: one turn of the loop, or the end of
\* the walk with its verdict.
check_invariants_walk(t) ==
    /\ pc[t] = "check_walk"
    /\ IF check_invariants_continue(t)
       THEN /\ pred' = [pred EXCEPT ![t] = curr[t]]
            /\ curr' = [curr EXCEPT ![t] = next[curr[t]]]
            /\ UNCHANGED <<pc, res>>
       ELSE /\ \E r \in check_invariants : res' = [res EXCEPT ![t] = r]
            /\ pc' = [pc EXCEPT ![t] = "done"]
            /\ UNCHANGED <<pred, curr>>
    /\ UNCHANGED <<impl, heap, node_mutex, list_mutex, current_size, op, arg, node,
                   left, callers, values_to_add, seq_id, hist>>

Auditing == \E u \in Threads : pc[u] \in {"check_start", "check_walk"}
InitChecked == Init /\ impl \in {"fine", "pq"}
CheckedStep(t) ==
    \/ ~Auditing /\ FineStep(t)
    \/ ~Auditing /\ PQStep(t)
    \/ check_invariants_call(t)
    \/ check_invariants_start(t)
    \/ check_invariants_walk(t)
NextChecked == \E t \in Threads : CheckedStep(t)
SpecChecked == InitChecked /\ [][NextChecked]_vars

\* ------------------------------------------------------ the destructor
\* ~SortedLinkedList_...() of the four variants (set_sequential.h 72-81,
\* set_coarse.h 82-92, set_fine.h 113-123, pq_fine.h 130-144), run by a thread
\* when no operation is in progress; no call is made on the object after.
destructor_call(t) ==
    /\ t \in callers
    /\ \A u \in Threads : pc[u] \in {"idle", "done"}
    /\ op' = [op EXCEPT ![t] = "destructor"]
    /\ curr' = [curr EXCEPT ![t] = head]
    /\ pc' = [pc EXCEPT ![t] = "destructor_loop"]
    /\ UNCHANGED <<impl, heap, node_mutex, list_mutex, current_size, arg, pred, node,
                   res, left, callers, values_to_add, seq_id, hist>>

\* Mutant: the walk stops at tail and leaves it allocated.
destructor_loop_stops_at_tail(t) ==
    /\ pc[t] = "destructor_loop"
    /\ IF curr[t] # tail
       THEN /\ Free(curr[t])
            /\ curr' = [curr EXCEPT ![t] = next[curr[t]]]
            /\ UNCHANGED pc
       ELSE /\ pc' = [pc EXCEPT ![t] = "destroyed"]
            /\ UNCHANGED <<heap, curr>>
    /\ UNCHANGED <<impl, node_mutex, list_mutex, current_size, op, arg, pred, node,
                   res, left, callers, values_to_add, seq_id, hist>>

\* while (current != nullptr) { next_node = current->next; delete current;
\* current = next_node; }: one turn of the loop, or its end.
destructor_loop(t) ==
    /\ pc[t] = "destructor_loop"
    /\ IF curr[t] # NULL
       THEN /\ Free(curr[t])
            /\ curr' = [curr EXCEPT ![t] = next[curr[t]]]
            /\ UNCHANGED pc
       ELSE /\ pc' = [pc EXCEPT ![t] = "destroyed"]
            /\ UNCHANGED <<heap, curr>>
    /\ UNCHANGED <<impl, node_mutex, list_mutex, current_size, op, arg, pred, node,
                   res, left, callers, values_to_add, seq_id, hist>>

Destroying == \E u \in Threads : pc[u] \in {"destructor_loop", "destroyed"}
LifeStep(t) ==
    \/ ~Destroying /\ Step(t)
    \/ destructor_call(t)
    \/ destructor_loop(t)
NextLife == \E t \in Threads : LifeStep(t)
SpecLife == Init /\ [][NextLife]_vars

\* ------------------------------------------- check_invariants as a function
\* check_invariants() is a const walk over the object's fields: head, tail,
\* the next pointers, the values and (queue) current_size.  Here it is applied
\* to every object of up to MaxAudit data nodes: the values in any order, the
\* last link at tail or null, the counter at any number.  The sequential set
\* has no counter.
AuditSeqs == UNION {[1..k -> Values] : k \in 0..MaxAudit}
AuditElem(s, i) == IF impl = "pq" THEN <<s[i], i>> ELSE s[i]
InitAudit ==
    \E s \in AuditSeqs, n \in 0..MaxAudit, last \in {"tail", "null"} :
        /\ impl \in Impls
        /\ head = IF impl = "pq" THEN 1 ELSE 2
        /\ tail = IF impl = "pq" THEN 2 ELSE 1
        /\ nodes = 1..(2 + Len(s))
        /\ val = [c \in Cells |->
                    IF c = tail THEN (IF impl = "pq" THEN <<max_val, 0>> ELSE max_val)
                    ELSE IF c \in 3..(2 + Len(s)) THEN AuditElem(s, c - 2)
                    ELSE DefaultVal]
        /\ next = [c \in Cells |->
                     LET end == IF last = "tail" THEN tail ELSE NULL
                         to(d) == IF d <= 2 + Len(s) THEN d ELSE end
                     IN  IF c = head THEN to(3)
                         ELSE IF c \in 3..(2 + Len(s)) THEN to(c + 1)
                         ELSE NULL]
        /\ current_size = (IF impl = "seq" THEN 0 ELSE n)
        /\ InitCallers({1}, [t \in Threads |-> 1], <<>>)

\* One call of check_invariants(); res is the outcome.
audit(t) ==
    /\ t \in callers /\ pc[t] = "idle"
    /\ op' = [op EXCEPT ![t] = "check_invariants"]
    /\ \E r \in check_invariants : res' = [res EXCEPT ![t] = r]
    /\ pc' = [pc EXCEPT ![t] = "done"]
    /\ UNCHANGED <<impl, heap, node_mutex, list_mutex, current_size, arg, pred, curr,
                   node, left, callers, values_to_add, seq_id, hist>>

NextAudit == \E t \in Threads : audit(t)
SpecAudit == InitAudit /\ [][NextAudit]_vars

\* --------------------------------- ConcurrentAdds (set_concurrent_test.cpp)
\* The values 0..N-1 are shuffled into values_to_add; thread i adds the
\* entries start_index..end_index-1 of it, skipping the indices past the end.
OPERATIONS_PER_THREAD == (Cardinality(Values) + NThreads - 1) \div NThreads
start_index(t) == (t - 1) * OPERATIONS_PER_THREAD
end_index(t) == start_index(t) + OPERATIONS_PER_THREAD
\* The indices thread t adds, counted from 1, in a vector of n entries.
Chunk(t, n) == {k \in 1..n : start_index(t) < k /\ k <= end_index(t)}
Shuffles == {w \in [1..Cardinality(Values) -> Values] : Range(w) = Values}

InitAdds ==
    /\ impl \in {"coarse", "fine"}
    /\ \E w \in Shuffles :
          InitWith(Threads,
                   [t \in Threads |-> Cardinality(Chunk(t, Len(w)))], w)

\* The loop body, line 82: set->add(values_to_add[k])
adds_call(t) ==
    /\ Chunk(t, Len(values_to_add)) # {}
    /\ Call(t, "add",
            values_to_add[start_index(t) + 1
                          + Cardinality(Chunk(t, Len(values_to_add))) - left[t]],
            IF impl = "fine" THEN "hoh_lock_pred" ELSE "list_lock", NULL)
    /\ UNCHANGED <<impl, heap, node_mutex, list_mutex, current_size, res, callers,
                   values_to_add, seq_id, abs, expect, added, removed>>

AddsStep(t) ==
    \/ adds_call(t)
    \/ hoh_lock_pred(t)
    \/ hoh_lock_curr(t)
    \/ hoh_step(t)
    \/ fine_add(t)
    \/ fine_add_size(t)
    \/ fine_unlock_curr(t)
    \/ fine_unlock_pred(t)
    \/ coarse_lock(t)
    \/ coarse_find(t)
    \/ coarse_add(t)
    \/ coarse_unlock(t)

NextAdds == \E t \in Threads : AddsStep(t)
SpecAdds == InitAdds /\ [][NextAdds]_vars

\* ----------------- ConcurrentPush and ConcurrentPop (pq_concurrent_test.cpp)
\* Each thread pushes items, Prefill of them in all (one thread pushing them
\* all is the pre-population of ConcurrentPop), then runs the popping loop of
\* lines 172-188: pop until a pop returns nullopt and empty() is true.
Prefill == MaxCalls
InitDrain ==
    /\ impl = "pq"
    /\ InitWith(Threads, [t \in Threads |-> 2 * Prefill + 2], <<>>)

\* lines 122-125 and 156-159: pq->push(item)
drain_push_call(t) ==
    /\ seq_id <= Prefill
    /\ op[t] \in {"none", "push"}
    /\ pq_push_call(t)

\* lines 174-187: item = pq->pop(), again after an item, or after nullopt
\* with empty() false.
drain_pop_call(t) ==
    /\ op[t] = "pop" => (res[t] # nullopt \/ ~empty)
    /\ pq_pop_call(t)

\* lines 183-184: if (pq->empty()) break; the thread is then joined.
drain_break(t) ==
    /\ impl = "pq" /\ pc[t] = "done" /\ op[t] = "pop"
    /\ res[t] = nullopt /\ empty
    /\ pc' = [pc EXCEPT ![t] = "joined"]
    /\ UNCHANGED <<impl, heap, node_mutex, list_mutex, current_size, op, arg, pred,
                   curr, node, res, left, callers, values_to_add, seq_id, hist>>

DrainStep(t) ==
    \/ drain_push_call(t)
    \/ drain_pop_call(t)
    \/ drain_break(t)
    \/ for_push_lock_pred(t)
    \/ for_push_lock_curr(t)
    \/ for_push_step(t)
    \/ pq_push_link(t)
    \/ pq_push_size(t)
    \/ pq_push_unlock_curr(t)
    \/ pq_push_unlock_pred(t)
    \/ pq_pop_lock_head(t)
    \/ pq_pop_lock_first(t)
    \/ pq_pop_empty_unlock_tail(t)
    \/ pq_pop_empty_unlock_head(t)
    \/ pq_pop_lock_next(t)
    \/ pq_pop_advance(t)
    \/ pq_pop_lock_tail(t)
    \/ pq_pop_take(t)
    \/ pq_pop_unlink(t)
    \/ pq_pop_size(t)
    \/ pq_pop_unlock_tail(t)
    \/ pq_pop_unlock_victim(t)
    \/ pq_pop_unlock_pred(t)
    \/ pq_pop_delete(t)

NextDrain == \E t \in Threads : DrainStep(t)
SpecDrain == InitDrain /\ [][NextDrain]_vars

\* ------------------------------------------------------------ properties
Less(a, b) == IF impl = "pq" THEN comp(a, b) ELSE a < b
InCall(t) == pc[t] \notin {"idle", "done"}
AllDone == \A t \in Threads : ~InCall(t) /\ left[t] = 0
Finishes == <>AllDone /\ \A t \in Threads : (InCall(t) ~> ~InCall(t))

\* C1: driven by one thread, every set variant answers as the mathematical set
\* S of the values its data nodes carry: add(v) returns true iff v was not in
\* S and leaves v in S, remove(v) returns true iff v was in S and leaves v
\* out of S, contains(v) returns true iff v is in S.
C1_SetMatchesAbstractSet ==
    (impl \in {"seq", "coarse", "fine"} /\ pc[1] = "done") =>
        LET S0 == Range(pre.vals)
            S == Range(DataVals)
            v == arg[1]
        IN /\ op[1] = "add" => (res[1] = (v \notin S0) /\ S = S0 \cup {v})
           /\ op[1] = "remove" => (res[1] = (v \in S0) /\ S = S0 \ {v})
           /\ op[1] = "contains" => (res[1] = (v \in S0) /\ S = S0)

C1_Witness ==
    /\ impl = "fine" /\ pc[1] = "done" /\ op[1] = "remove" /\ res[1] = TRUE
    /\ Len(pre.vals) = 2 /\ Len(DataVals) = 1

\* C2: in every state of the fine-locked set and queue, also in the middle of
\* operations, the chain from head is sorted non-decreasingly over its data
\* nodes, holds both sentinels, reaches tail, tail.next is null and every
\* other reachable node has a non-null next.
C2_ChainWellFormed ==
    impl \in {"fine", "pq"} =>
        /\ Len(Chain) >= 2
        /\ Chain[1] = head /\ Chain[Len(Chain)] = tail
        /\ \A i \in 1..(Len(Chain) - 1) : Chain[i] # tail /\ next[Chain[i]] # NULL
        /\ next[tail] = NULL
        /\ \A i, j \in 1..Len(DataVals) : i < j => ~Less(DataVals[j], DataVals[i])

C2_Witness ==
    /\ impl = "fine" /\ Len(DataVals) = 1
    /\ \E t, u \in Threads :
          /\ pc[t] = "remove_size"
          /\ pc[u] = "hoh_lock_curr" /\ curr[u] = pred[t]

\* C3: under any interleaving the fine- and coarse-locked sets never hold two
\* data nodes of equal value; of the adds of a value v that no remove has
\* taken out again, exactly one returns true.
Decided(t) ==
    pc[t] \in {"add_size", "remove_size", "unlock_curr", "unlock_pred",
               "remove_delete", "list_unlock", "done"}
C3_UniqueValues ==
    impl \in {"fine", "coarse"} =>
        /\ \A i, j \in 1..Len(DataVals) : i # j => DataVals[i] # DataVals[j]
        /\ \A v \in Values :
              /\ added[v] - removed[v] \in {0, 1}
              /\ (removed[v] = 0
                  /\ \E t \in Threads : op[t] = "add" /\ arg[t] = v /\ Decided(t))
                 => added[v] = 1

C3_Witness ==
    /\ impl = "fine"
    /\ \E t, u \in Threads :
          /\ op[t] = "add" /\ op[u] = "add" /\ arg[t] = arg[u]
          /\ pc[t] = "unlock_pred" /\ res[t] = TRUE
          /\ pc[u] = "hoh_lock_curr" /\ curr[u] = pred[t]
          /\ removed[arg[t]] = 0

\* C4: once every call has returned, size() is the number of data nodes.
C4_SizeIsNodeCount == Quiescent => size = Cardinality(DataNodes)

C4_Witness ==
    /\ impl = "pq" /\ Quiescent /\ size = 2
    /\ \A t \in Threads : left[t] = 0

\* C5: the value a pop unlinks is a maximum: right after the unlink no data
\* node left in the chain is greater under cmp.
C5_PopReturnsMaximum ==
    \A t \in Threads :
        pc[t] = "pop_size" => \A u \in DataNodes : ~comp(res[t], val[u])

C5_Witness ==
    \E t, u \in Threads :
        /\ pc[t] = "pop_size" /\ Len(DataVals) = 1
        /\ pc[u] = "for_push_lock_curr" /\ arg[u][1] = res[t][1]

\* C6: with one thread, elements of equal priority leave the queue in the
\* order they were pushed: a pop never returns an element while an earlier
\* pushed one of the same priority is still in the chain.
C6_FifoAmongEquals ==
    (impl = "pq" /\ pc[1] = "done" /\ op[1] = "pop" /\ res[1] # nullopt) =>
        \A u \in DataNodes : val[u][1] = res[1][1] => val[u][2] > res[1][2]

C6_Witness ==
    /\ impl = "pq" /\ pc[1] = "done" /\ op[1] = "pop" /\ res[1] # nullopt
    /\ \E u \in DataNodes : val[u][1] = res[1][1]

\* C7: a pop that finds only the two sentinels returns nullopt and leaves the
\* chain, the size counter and every lock as they were, head and tail unlocked.
C7_PopOnEmpty ==
    (impl = "pq" /\ pc[1] = "done" /\ op[1] = "pop" /\ pre.chain = <<head, tail>>) =>
        /\ res[1] = nullopt
        /\ Chain = pre.chain
        /\ current_size = pre.size
        /\ node_mutex = pre.mutex
        /\ node_mutex[head] = NoThread /\ node_mutex[tail] = NoThread

C7_Witness ==
    /\ impl = "pq" /\ pc[1] = "done" /\ op[1] = "pop" /\ pre.chain = <<head, tail>>
    /\ left[1] = 0

\* C8: the fine-locked set and queue are linearizable, each call taking effect
\* where it holds its locks and splices (or decides not to): the value a call
\* returns is the one the abstract set / FIFO priority queue gives at that
\* point, and the chain holds what the abstract object holds.
Answered(t) ==
    \/ op[t] \in {"add", "remove", "contains"} /\ Decided(t)
    \/ op[t] = "pop" /\ pc[t] \in {"pop_size", "pop_unlock_tail", "pop_unlock_victim",
                                   "pop_unlock_pred", "pop_delete", "done"}
C8_Linearizable ==
    impl \in {"fine", "pq"} =>
        /\ \A t \in Threads : Answered(t) => res[t] = expect[t]
        /\ impl = "fine" => abs = Range(DataVals)
        /\ impl = "pq" => Range(abs) = Range(DataVals) /\ Len(abs) = Len(DataVals)

C8_Witness ==
    /\ impl = "pq"
    /\ \E t, u \in Threads :
          /\ pc[t] = "pop_delete" /\ res[t] # nullopt
          /\ pc[u] = "pop_empty_unlock_head" /\ expect[u] = nullopt

\* C9: every thread takes node locks in chain order, head toward tail, and no
\* state with a call in progress leaves every thread unable to step.
Index(c) == CHOOSE i \in 1..Len(Chain) : Chain[i] = c
Wanted(t) ==
    IF pc[t] \in {"hoh_lock_pred", "for_push_lock_pred", "pop_lock_head"} THEN {head}
    ELSE IF pc[t] \in {"hoh_lock_curr", "for_push_lock_curr", "pop_lock_first"}
         THEN {curr[t]}
    ELSE IF pc[t] \in {"pop_lock_next", "pop_lock_tail"} THEN {node[t]}
    ELSE {}
C9_LockOrderNoDeadlock ==
    impl \in {"fine", "pq"} =>
        /\ \A t \in Threads : \A w \in Wanted(t) :
              /\ w \in Range(Chain)
              /\ \A h \in Held(t) : h \in Range(Chain) /\ Index(h) < Index(w)
        /\ (\E t \in Threads : InCall(t)) => ENABLED Next

C9_Witness ==
    /\ impl = "pq"
    /\ \E t, u \in Threads :
          /\ pc[t] = "pop_lock_tail" /\ Cardinality(Held(t)) = 2
          /\ pc[u] = "for_push_lock_curr" /\ node_mutex[curr[u]] = t

\* C10: with finitely many threads and calls and fair scheduling, every call
\* returns and every thread finishes.
C10_EveryCallReturns == Finishes

C10_Witness ==
    /\ AllDone /\ impl = "fine"
    /\ \A t \in Threads : left[t] = 0 /\ op[t] = "remove" /\ res[t] = TRUE

\* C11: when the threads concurrently add pairwise disjoint values to an empty
\* coarse- or fine-locked set, every add returns true, and once all threads
\* have joined size() is the number N of values added, contains(i) is true
\* of every added value i and check_invariants() returns true.
C11_DisjointAddsAllLand ==
    /\ \A t \in Threads : (op[t] = "add" /\ Decided(t)) => res[t] = TRUE
    /\ AllDone =>
          /\ \A i \in Range(values_to_add) : added[i] = 1 /\ contains(i)
          /\ size = Len(values_to_add)
          /\ check_invariants = {"true"}

C11_Witness ==
    /\ impl = "fine" /\ AllDone /\ size = Len(values_to_add)
    /\ values_to_add[1] > values_to_add[Len(values_to_add)]
    /\ \A t \in Threads : op[t] = "add"

\* C12: the queue neither loses nor duplicates an element under any
\* interleaving of pushes and pops: whenever no call is in progress, the
\* values the pops returned together with the values in the chain are the
\* values pushed, each as often; and once every thread has popped until it
\* observed empty, the successful pops number the items pushed, none was
\* returned twice and size() is 0.
RECURSIVE Total(_)
Total(f) ==
    IF DOMAIN f = {} THEN 0
    ELSE LET e == CHOOSE x \in DOMAIN f : TRUE
         IN f[e] + Total([x \in DOMAIN f \ {e} |-> f[x]])
InChain(e) == Cardinality({i \in 1..Len(DataVals) : DataVals[i] = e})
C12_NothingLostOrDuplicated ==
    impl = "pq" =>
        /\ \A e \in DOMAIN removed : removed[e] = 1
        /\ (\A t \in Threads : pc[t] \in {"idle", "done", "joined"}) =>
              /\ Total(added) = seq_id - 1
              /\ \A e \in DOMAIN added \cup DOMAIN removed \cup Range(DataVals) :
                    Count(removed, e) + InChain(e) = Count(added, e)
        /\ (\A t \in Threads : pc[t] = "joined") =>
              /\ Total(removed) = seq_id - 1
              /\ size = 0 /\ next[head] = tail

C12_Witness ==
    /\ impl = "pq" /\ \A t \in Threads : pc[t] = "joined"
    /\ Total(removed) = Prefill
    /\ \A t \in Threads : left[t] <= 2 * Prefill - 1

\* C13: when the allocation inside add or push fails, the error reaches the
\* caller with the failing thread holding no node lock and no list lock, and
\* with the chain and the size counter as the call found them; the other
\* threads' calls go on.
Running(t) == pc[t] \notin {"idle", "done", "thrown", "ctor_failed"}
Failed(t) == pc[t] = "thrown" /\ op[t] \in {"add", "push"}
C13_FailedAllocationLeavesNoTrace ==
    /\ \A t \in Threads :
          Failed(t) =>
             /\ Held(t) = {}
             /\ list_mutex.writer # t /\ t \notin list_mutex.readers
             /\ callers = {t} =>
                   /\ Chain = pre.chain /\ DataVals = pre.vals
                   /\ current_size = pre.size
                   /\ node_mutex = pre.mutex
    /\ (\E t \in Threads : Failed(t)) =>
          /\ impl # "pq" => abs = Range(DataVals)
          /\ impl = "pq" => Range(abs) = Range(DataVals) /\ Len(abs) = Len(DataVals)
          /\ (\A u \in Threads : ~Running(u)) => size = Cardinality(DataNodes)
          /\ (\E u \in Threads : Running(u)) =>
                \E u \in Threads : Running(u) /\ ENABLED (Step(u) \/ BadAllocStep(u))

C13_Witness ==
    /\ impl = "fine"
    /\ \E t, u \in Threads :
          /\ Failed(t) /\ pc[u] = "add_size" /\ arg[u] = arg[t]

\* C14: construction is atomic: when the allocation of either sentinel
\* fails, the constructor fails and no sentinel stays allocated.
C14_ConstructionAtomic ==
    \A t \in Threads : pc[t] = "ctor_failed" => nodes = {}

\* The single caller's last two calls were o1(v); o2(v), both returned.
Pair(o1, o2) ==
    /\ impl \in {"seq", "coarse", "fine"} /\ callers = {1}
    /\ pc[1] = "done" /\ op[1] = o2
    /\ pre.calls # <<>> /\ pre.calls[1].op = o1 /\ pre.calls[1].arg = arg[1]
RECURSIVE landing(_, _, _)
\* contains(v) and size() on the collection as an earlier call found it: the
\* traversal's landing place among the data values, and the test there.
landing(vals, v, i) ==
    IF i <= Len(vals) /\ vals[i] < v THEN landing(vals, v, i + 1) ELSE i
contained(vals, v) ==
    LET i == landing(vals, v, 1) IN i <= Len(vals) /\ vals[i] = v
size_at(snapshot) == IF impl = "seq" THEN Len(snapshot.vals) ELSE snapshot.size

\* C15 as claimed: add(v); remove(v) from any state leaves contains(v) as it
\* was.
C15_AddRemoveKeepsContains ==
    Pair("add", "remove") => contains(arg[1]) = contained(pre.calls[1].vals, arg[1])

\* C15, amended: with one thread, add(v); remove(v) from any state in which
\* contains(v) is false leaves contains(v) unchanged (false).
C15_AddRemoveOfAbsentKeepsContains ==
    (Pair("add", "remove") /\ ~contained(pre.calls[1].vals, arg[1])) =>
        contains(arg[1]) = contained(pre.calls[1].vals, arg[1])

C15_Witness ==
    /\ Pair("add", "remove") /\ impl = "fine"
    /\ ~contained(pre.calls[1].vals, arg[1])
    /\ Len(pre.calls[1].vals) = 2 /\ pre.calls[1].vals[1] < arg[1]

\* C16: add is idempotent on every set: after add(v); add(v) the chain's
\* contents and the size are those after the first add(v), and the second
\* add(v) returns false.
C16_AddIdempotent ==
    Pair("add", "add") =>
        /\ res[1] = FALSE
        /\ DataVals = pre.vals
        /\ size = size_at(pre)

C16_Witness ==
    /\ Pair("add", "add") /\ impl = "coarse"
    /\ pre.calls[1].res = TRUE /\ Len(DataVals) = 3 /\ DataVals[2] = arg[1]

\* C17 as claimed: across add(v); add(v) from any state size() grows by
\* exactly one.
C17_AddAddGrowsByOne ==
    Pair("add", "add") => size = size_at(pre.calls[1]) + 1

\* C17, amended: across add(v); add(v) from any state in which v is not in
\* the set, size() grows by exactly one.
C17_AddAddOfAbsentGrowsByOne ==
    (Pair("add", "add") /\ ~contained(pre.calls[1].vals, arg[1])) =>
        size = size_at(pre.calls[1]) + 1

C17_Witness ==
    /\ Pair("add", "add") /\ impl = "seq"
    /\ ~contained(pre.calls[1].vals, arg[1])
    /\ size = 3 /\ left[1] = 0

\* C18: on an empty queue push(v); pop() returns v and leaves the queue
\* empty: size() is 0, empty() holds, head.next is tail, and one more pop()
\* returns nullopt.
PushPop(k) ==
    /\ impl = "pq" /\ callers = {1} /\ pc[1] = "done" /\ op[1] = "pop"
    /\ Len(pre.calls) >= k
    /\ pre.calls[k].op = "push" /\ pre.calls[k].vals = <<>>
    /\ \A i \in 1..(k - 1) : pre.calls[i].op = "pop"
C18_PushPopRoundTrip ==
    /\ PushPop(1) =>
          /\ res[1] = pre.calls[1].arg
          /\ size = 0 /\ empty /\ next[head] = tail
    /\ PushPop(2) =>
          /\ pre.calls[1].res = pre.calls[2].arg
          /\ res[1] = nullopt
          /\ size = 0 /\ empty /\ next[head] = tail

C18_Witness == PushPop(2) /\ pre.calls[2].arg[1] = max_val /\ left[1] = 1

\* C19: check_invariants() returns true in every quiescent state, whatever
\* sequence of sequential or concurrent operations led to it.
C19_CheckInvariantsAtQuiescence == Quiescent => check_invariants = {"true"}

C19_Witness ==
    /\ Quiescent /\ impl = "fine" /\ callers = Threads
    /\ \A t \in Threads : left[t] = 0 /\ op[t] = "add" /\ res[t] = TRUE
    /\ Len(DataVals) = 3

\* What C20 says the audit covers: the chain is sorted (non-decreasing under
\* the collection's order), tail is reachable from head, and size() is the
\* number of data nodes.
ChainSorted ==
    \A i \in 1..(Len(DataVals) - 1) :
        IF impl = "pq" THEN ~comp(DataVals[i + 1], DataVals[i])
        ELSE DataVals[i] <= DataVals[i + 1]
TailReachable == tail \in Range(Chain)
SizeConsistent == size = Cardinality(DataNodes)

InCritical(t) ==
    pc[t] \in {"find", "add", "remove", "contains", "check_invariants", "list_unlock"}

\* C21: in the coarse set no thread is inside the critical section of add or
\* remove while another thread is inside the critical section of any of add,
\* remove, contains and check_invariants.  (That several contains calls can
\* be inside together is the state of C21_Witness.)
C21_WritersExclusive ==
    impl = "coarse" =>
        \A t, u \in Threads :
            (t # u /\ InCritical(t) /\ op[t] \in {"add", "remove"}) => ~InCritical(u)

C21_Witness ==
    /\ impl = "coarse" /\ current_size = 1
    /\ \A t \in Threads : pc[t] = "contains" /\ t \in list_mutex.readers

\* C22: in every quiescent state of the queue empty() is true iff size() is 0
\* iff head.next is tail; a fresh queue is empty with size 0; with one caller,
\* empty() is false after a push and true after the pop that takes the last
\* element.
C22_EmptyIffSizeZero ==
    impl = "pq" =>
        /\ Quiescent => (empty <=> size = 0) /\ (size = 0 <=> next[head] = tail)
        /\ (\A t \in Threads : op[t] = "none") => empty /\ size = 0
        /\ (callers = {1} /\ pc[1] = "done" /\ op[1] = "push") => ~empty
        /\ (callers = {1} /\ pc[1] = "done" /\ op[1] = "pop" /\ res[1] # nullopt
            /\ Len(pre.vals) = 1) => empty

C22_Witness ==
    /\ impl = "pq" /\ callers = {1} /\ pc[1] = "done" /\ op[1] = "pop"
    /\ res[1] # nullopt /\ Len(pre.vals) = 1 /\ empty
    /\ Len(pre.calls) = 2 /\ pre.calls[1].op = "push" /\ pre.calls[2].op = "pop"

\* C23 as claimed: whenever a thread holds the lock of a non-head node of the
\* chain, it holds the lock of that node's predecessor too.
C23_HeldNodeHasHeldPredecessor ==
    impl \in {"fine", "pq"} =>
        \A t \in Threads : \A c \in Held(t) :
            (c # head /\ c \in Range(Chain)) => Chain[Index(c) - 1] \in Held(t)

\* C23, amended: a thread takes the lock of a non-head node only while it
\* holds the lock of the node's predecessor in the chain, and it still holds
\* that lock when the acquisition is done.
TakenUnderPredecessor ==
    impl \in {"fine", "pq"} =>
    \A c \in Cells :
        (node_mutex'[c] # node_mutex[c] /\ node_mutex'[c] # NoThread /\ c # head)
        => \E p \in Range(Chain) :
              /\ next[p] = c
              /\ node_mutex[p] = node_mutex'[c]
              /\ node_mutex'[p] = node_mutex'[c]
C23_LockTakenUnderPredecessor ==
    [][TakenUnderPredecessor]_vars

C23_Witness ==
    /\ impl = "fine"
    /\ \E t, u \in Threads :
          /\ pc[t] = "hoh_step" /\ pred[t] # head /\ next[pred[t]] = curr[t]
          /\ Held(t) = {pred[t], curr[t]}
          /\ u # t /\ Held(u) = {head}

\* C24: in the fine-locked set and in the queue's push no thread ever holds
\* more than two node locks.
C24_AtMostTwoLocks ==
    \A t \in Threads :
        (impl = "fine" \/ (impl = "pq" /\ op[t] = "push")) => Cardinality(Held(t)) <= 2

C24_Witness ==
    /\ impl = "pq"
    /\ \A t \in Threads : op[t] = "push" /\ Cardinality(Held(t)) = 2

\* C25: a pop never holds more than three node locks, and at the unlink it
\* holds exactly three: the victim's predecessor, the victim and tail.
C25_PopHoldsThreeAtUnlink ==
    \A t \in Threads :
        (impl = "pq" /\ op[t] = "pop") =>
            /\ Cardinality(Held(t)) <= 3
            /\ pc[t] \in {"pop_take", "pop_unlink"} =>
                  /\ Held(t) = {pred[t], curr[t], tail}
                  /\ Cardinality(Held(t)) = 3
                  /\ next[pred[t]] = curr[t] /\ next[curr[t]] = tail

C25_Witness ==
    \E t, u \in Threads :
        /\ impl = "pq" /\ pc[t] = "pop_unlink" /\ pred[t] # head
        /\ u # t /\ pc[u] = "for_push_lock_curr" /\ curr[u] = pred[t]

\* C26: in the fine-locked set and queue every change of a chain node's next
\* pointer is an unlink or a splice made by a thread that holds the locks of
\* that node and of its successor: at an unlink the successor is the node
\* taken out, at a splice it is the new node's successor.
UnlinkOrSpliceUnderLocks ==
    impl \in {"fine", "pq"} =>
    \A p \in Range(Chain) :
        next'[p] # next[p] =>
            /\ \E t \in Threads :
                  /\ pc'[t] # pc[t]
                  /\ node_mutex[p] = t /\ node_mutex[next[p]] = t
            /\ \/ next'[p] = next[next[p]]
               \/ next'[p] \notin Range(Chain) /\ next'[next'[p]] = next[p]
C26_UnlinkAndSpliceUnderBothLocks == [][UnlinkOrSpliceUnderLocks]_vars

C26_Witness ==
    \E t, u \in Threads :
        /\ impl = "fine" /\ pc[t] = "remove_size"
        /\ node[t] \notin Range(Chain) /\ Held(t) = {pred[t], node[t]}
        /\ u # t /\ pc[u] = "add_size" /\ Held(u) = {pred[u], curr[u]}

\* C27: a node is deallocated only by the call that unlinked it, after that
\* call has released all its locks, with the node out of the chain, its mutex
\* free and allocated (no double free), and with no other call in progress
\* about to touch it; and no call in progress ever touches a deallocated
\* node (no use after free).  The nodes a call still touches are those whose
\* lock it holds (it reads and writes them and unlocks them), the one whose
\* lock it waits for, the node it is about to delete and push's new node.
Victim(t) == IF impl = "fine" THEN node[t] ELSE curr[t]
Deleting(t) ==
    \/ impl = "fine" /\ pc[t] = "remove_delete" /\ node[t] # NULL
    \/ impl = "pq" /\ pc[t] = "pop_delete"
Touches(t) ==
    Held(t) \cup Wanted(t)
    \cup (IF Deleting(t) THEN {Victim(t)} ELSE {})
    \cup (IF op[t] = "push" /\ InCall(t) THEN {node[t]} ELSE {})
C27_SafeReclamation ==
    impl \in {"fine", "pq"} =>
        /\ \A t \in Threads : Touches(t) \subseteq nodes
        /\ \A t \in Threads :
              Deleting(t) =>
                 /\ Victim(t) \in nodes
                 /\ Victim(t) \notin Range(Chain)
                 /\ Held(t) = {}
                 /\ node_mutex[Victim(t)] = NoThread
                 /\ res[t] = (IF impl = "pq" THEN val[Victim(t)] ELSE TRUE)
                 /\ \A u \in Threads \ {t} : Victim(t) \notin Touches(u)

C27_Witness ==
    \E t, u \in Threads :
        /\ impl = "pq" /\ pc[t] = "pop_delete"
        /\ u # t /\ pc[u] = "pop_lock_first" /\ curr[u] = pred[t] /\ pred[t] # tail
        /\ Len(DataVals) = 1

\* The place of the new element of a push among the data values, and the
\* elements of cmp-equal priority.
Place(e) == CHOOSE i \in 1..Len(DataVals) : DataVals[i] = e
Equivalent(a, b) == ~comp(a, b) /\ ~comp(b, a)
Pushed ==
    impl = "pq" /\ callers = {1} /\ pc[1] = "done" /\ op[1] = "push"

\* C28 as claimed: right after push(v) returns, every element that was in the
\* chain before and is equivalent to v precedes the new node.
C28_NewNodeAfterEquals ==
    Pushed =>
        \A j \in 1..Len(DataVals) :
            (j # Place(arg[1]) /\ Equivalent(DataVals[j], arg[1])) => j < Place(arg[1])

\* C28, amended: right after push(v) returns, the new node precedes every
\* element that was in the chain before and is equivalent to v.
C28_NewNodeBeforeEquals ==
    Pushed =>
        /\ \E i \in 1..Len(DataVals) : DataVals[i] = arg[1]
        /\ \A j \in 1..Len(DataVals) :
              (j # Place(arg[1]) /\ Equivalent(DataVals[j], arg[1]))
              => Place(arg[1]) < j

C28_Witness ==
    /\ Pushed /\ Len(DataVals) = 3 /\ Place(arg[1]) = 2
    /\ Equivalent(DataVals[3], arg[1]) /\ comp(DataVals[1], arg[1])

\* The first place among the data values vals whose element is not less than
\* e under cmp (past the end if there is none).
RECURSIVE FirstNotLess(_, _, _)
FirstNotLess(vals, e, i) ==
    IF i <= Len(vals) /\ comp(vals[i], e) THEN FirstNotLess(vals, e, i + 1) ELSE i

\* C29: push(v) comes to its splice with pred and curr locked and adjacent,
\* curr the first node that is tail or not less than v; the new node goes in
\* right before the first data node not less than v, whether or not an
\* equivalent element is there, the other elements stay, and the size grows
\* by one.
C29_PushInsertsBeforeFirstNotLess ==
    (impl = "pq" /\ callers = {1}) =>
        /\ pc[1] = "push_link" =>
              /\ Held(1) = {pred[1], curr[1]} /\ next[pred[1]] = curr[1]
              /\ curr[1] = tail \/ ~comp(val[curr[1]], arg[1])
              /\ pred[1] = head \/ comp(val[pred[1]], arg[1])
        /\ Pushed =>
              LET k == FirstNotLess(pre.vals, arg[1], 1)
              IN /\ DataVals = SubSeq(pre.vals, 1, k - 1) \o <<arg[1]>>
                                \o SubSeq(pre.vals, k, Len(pre.vals))
                 /\ size = pre.size + 1

C29_Witness ==
    /\ Pushed /\ Len(pre.vals) = 3
    /\ FirstNotLess(pre.vals, arg[1], 1) = 2
    /\ Equivalent(pre.vals[2], arg[1]) /\ Equivalent(pre.vals[3], arg[1])

\* C30: a successful pop goes through its steps in this order: with prev,
\* victim and tail locked it takes the value, then sets prev.next = tail, then
\* decrements the counter, then unlocks tail, victim and prev in that order,
\* and only then deallocates the victim and returns the value.
C30_PopStepOrder ==
    (impl = "pq" /\ callers = {1} /\ op[1] = "pop") =>
        LET three == {pred[1], curr[1], tail}
            linked == next[pred[1]] = curr[1] /\ next[curr[1]] = tail
            unlinked == next[pred[1]] = tail /\ curr[1] \notin Range(Chain)
            taken == res[1] = val[curr[1]]
            alive == curr[1] \in nodes
        IN /\ pc[1] = "pop_take" =>
                 Held(1) = three /\ linked /\ current_size = pre.size /\ alive
           /\ pc[1] = "pop_unlink" =>
                 Held(1) = three /\ taken /\ linked /\ current_size = pre.size /\ alive
           /\ pc[1] = "pop_size" =>
                 Held(1) = three /\ taken /\ unlinked /\ current_size = pre.size /\ alive
           /\ pc[1] = "pop_unlock_tail" =>
                 Held(1) = three /\ taken /\ unlinked /\ current_size = pre.size - 1
                 /\ alive
           /\ pc[1] = "pop_unlock_victim" =>
                 Held(1) = {pred[1], curr[1]} /\ taken /\ unlinked
                 /\ current_size = pre.size - 1 /\ alive
           /\ pc[1] = "pop_unlock_pred" =>
                 Held(1) = {pred[1]} /\ taken /\ unlinked
                 /\ current_size = pre.size - 1 /\ alive
           /\ pc[1] = "pop_delete" =>
                 Held(1) = {} /\ taken /\ unlinked /\ current_size = pre.size - 1
                 /\ alive
           /\ (pc[1] = "done" /\ res[1] # nullopt) =>
                 /\ Held(1) = {} /\ ~alive /\ unlinked
                 /\ current_size = pre.size - 1
                 /\ res[1] = pre.vals[Len(pre.vals)]

C30_Witness ==
    /\ impl = "pq" /\ callers = {1} /\ op[1] = "pop" /\ pc[1] = "done"
    /\ res[1] # nullopt /\ Len(pre.vals) = 3 /\ curr[1] \notin nodes


\* A call that has spliced and has the counter still to update, and the node
\* locks it took for the splice.
SizePending(t) == pc[t] \in {"add_size", "remove_size", "push_size", "pop_size"}
SpliceLocks(t) ==
    IF op[t] = "pop" THEN {pred[t], curr[t], node[t]} ELSE {pred[t], curr[t]}

\* C31: in the fine-locked set and queue a successful add, push, remove or pop
\* updates the counter while it still holds every node lock it took for the
\* splice; so the counter is the number of data nodes whenever no node lock is
\* held, and it is off only while the call that spliced still holds the
\* spliced predecessor, which no other thread can then have locked.
C31_CounterUpdatedUnderSpliceLocks ==
    impl \in {"fine", "pq"} =>
        /\ \A t \in Threads : SizePending(t) => SpliceLocks(t) \subseteq Held(t)
        /\ (\A c \in Cells : node_mutex[c] = NoThread) =>
              current_size = Cardinality(DataNodes)
        /\ current_size # Cardinality(DataNodes) =>
              \E t \in Threads : SizePending(t) /\ node_mutex[pred[t]] = t

C31_Witness ==
    /\ impl = "fine"
    /\ \E t, u \in Threads :
          /\ pc[t] = "add_size" /\ pred[t] # head
          /\ pc[u] = "hoh_lock_curr" /\ curr[u] = pred[t]
          /\ current_size = 1 /\ Cardinality(DataNodes) = 2


\* The single caller's current or last call is one that takes no effect on
\* the set it found: contains, add of a value present, remove of one absent.
NoEffect ==
    /\ impl \in {"seq", "coarse", "fine"} /\ callers = {1}
    /\ \/ op[1] = "contains"
       \/ op[1] = "add" /\ arg[1] \in Range(pre.vals)
       \/ op[1] = "remove" /\ arg[1] \notin Range(pre.vals)

\* C32: on every set variant, add(v) of a value present and remove(v) of a
\* value absent (also on the empty set) return false, and they and
\* contains(v) leave the chain, its next pointers and the size as the call
\* found them, from the call to its return, with no cell allocated or freed.
C32_NoEffectLeavesCollectionUnchanged ==
    NoEffect =>
        /\ Chain = pre.chain /\ DataVals = pre.vals
        /\ next[tail] = NULL
        /\ nodes = Range(pre.chain)
        /\ size = size_at(pre)
        /\ (pc[1] = "done" /\ op[1] \in {"add", "remove"}) => res[1] = FALSE

C32_Witness ==
    /\ NoEffect /\ impl = "coarse" /\ pc[1] = "done" /\ op[1] = "add"
    /\ Len(pre.vals) = 1 /\ Len(pre.calls) = 2
    /\ pre.calls[2].op = "remove" /\ pre.calls[2].res = FALSE
    /\ pre.calls[2].vals = <<>>


\* The node a remove or a pop has picked to take out of the chain.
Picked(t) ==
    IF impl = "fine" /\ op[t] = "remove"
          /\ pc[t] \in {"remove_size", "unlock_curr", "unlock_pred", "remove_delete"}
          /\ node[t] # NULL
    THEN {node[t]}
    ELSE IF impl = "pq" /\ op[t] = "pop"
            /\ pc[t] \in {"pop_lock_tail", "pop_take", "pop_unlink", "pop_size",
                           "pop_unlock_tail", "pop_unlock_victim", "pop_unlock_pred",
                           "pop_delete"}
    THEN {curr[t]}
    ELSE {}

\* C33: on every variant and under every interleaving head and tail stay the
\* cells the constructor made them, allocated, first and last of the chain;
\* no remove and no pop picks a sentinel as the node to take out, also when
\* remove is called with a sentinel's value, and what a pop returns is a
\* pushed element, never a sentinel's.
C33_SentinelPermanence ==
    /\ head = (IF impl = "pq" THEN 1 ELSE 2) /\ tail = (IF impl = "pq" THEN 2 ELSE 1)
    /\ head \in nodes /\ tail \in nodes
    /\ Len(Chain) >= 2 /\ Chain[1] = head /\ Chain[Len(Chain)] = tail
    /\ \A t \in Threads : Picked(t) \cap {head, tail} = {}
    /\ \A t \in Threads :
          (impl = "pq" /\ op[t] = "pop" /\ res[t] # nullopt
             /\ pc[t] \in {"pop_unlink", "pop_size", "pop_unlock_tail",
                            "pop_unlock_victim", "pop_unlock_pred", "pop_delete", "done"})
          => res[t] \in DOMAIN added /\ res[t][2] >= 1

C33_Witness ==
    /\ impl = "fine" /\ DataVals = <<min_val>>
    /\ \E t, u \in Threads :
          /\ op[t] = "remove" /\ arg[t] = max_val /\ pc[t] = "unlock_curr"
          /\ curr[t] = tail /\ res[t] = FALSE
          /\ op[u] = "remove" /\ arg[u] = min_val /\ pc[u] = "done" /\ res[u] = FALSE


\* The sequential set as the oracle, on the data values vals its chain holds
\* (set_sequential.h 95-135): what call o(v) returns and what it leaves.
oracle_returns(vals, o, v) ==
    IF o = "add" THEN ~contained(vals, v) ELSE contained(vals, v)
oracle_leaves(vals, o, v) ==
    LET i == landing(vals, v, 1) IN
    IF o = "add" /\ ~contained(vals, v)
    THEN SubSeq(vals, 1, i - 1) \o <<v>> \o SubSeq(vals, i, Len(vals))
    ELSE IF o = "remove" /\ contained(vals, v)
    THEN SubSeq(vals, 1, i - 1) \o SubSeq(vals, i + 1, Len(vals))
    ELSE vals

\* C34: driven by one thread from empty, the sequential, the coarse-locked
\* and the fine-locked set all start with no data value, and every add,
\* remove and contains of each returns what the sequential list returns on
\* the same data values and leaves the data values the sequential list
\* leaves, size() being their number; so the same calls give the same
\* returns and the same chains of values in the three.
C34_SetsRefineSequential ==
    (impl \in {"seq", "coarse", "fine"} /\ callers = {1}) =>
        /\ op[1] = "none" => DataVals = <<>> /\ size = 0
        /\ pc[1] = "done" =>
              /\ res[1] = oracle_returns(pre.vals, op[1], arg[1])
              /\ DataVals = oracle_leaves(pre.vals, op[1], arg[1])
              /\ size = Len(DataVals)

C34_Witness ==
    /\ impl = "coarse" /\ callers = {1} /\ pc[1] = "done"
    /\ op[1] = "remove" /\ res[1] = TRUE
    /\ Len(pre.vals) = 3 /\ arg[1] = pre.vals[2] /\ Len(DataVals) = 2


\* The nodes whose next pointer or value the statement thread t is at reads or
\* writes, the nodes whose next pointer it writes, and the nodes it writes
\* without holding their mutex.  A statement that locks a node first accesses
\* it once it has the lock (Wanted).
Accessed(t) ==
    IF pc[t] \in {"hoh_lock_pred", "for_push_lock_pred", "pop_lock_head", "check_start"}
    THEN {head}
    ELSE IF pc[t] \in {"hoh_lock_curr", "for_push_lock_curr", "pop_lock_first",
                       "contains"}
    THEN {curr[t]} \ {tail}
    ELSE IF pc[t] \in {"hoh_step", "for_push_step", "pop_take"} THEN {curr[t]}
    ELSE IF pc[t] \in {"add", "remove"} THEN {pred[t], curr[t]}
    ELSE IF pc[t] \in {"push_link", "pop_unlink"} THEN {pred[t]}
    ELSE IF pc[t] = "pop_advance" THEN {node[t]}
    ELSE IF pc[t] = "check_walk" THEN {pred[t], curr[t]} \ {tail, NULL}
    ELSE {}
Written(t) ==
    IF \/ pc[t] = "add" /\ ~found(t)
       \/ pc[t] = "remove" /\ found(t)
       \/ pc[t] \in {"push_link", "pop_unlink"}
    THEN {pred[t]}
    ELSE {}
WrittenUnlocked(t) ==
    IF pc[t] = "push_link" THEN {node[t]}
    ELSE IF pc[t] = "add" /\ ~found(t) THEN {NewCell}
    ELSE {}

\* C35 as claimed: in the fine-locked set and queue every read or write of a
\* reachable node's next pointer and every read of a data node's value in a
\* traversal is done by a thread holding that node's mutex; the only writes
\* without the mutex go to a new node not yet reachable from head.
C35_EveryAccessUnderNodeMutex ==
    impl \in {"fine", "pq"} =>
        \A t \in Threads :
            /\ Accessed(t) \subseteq Held(t) \cup Wanted(t)
            /\ WrittenUnlocked(t) \cap Range(Chain) = {}

\* C35, amended: in add, remove, contains, push and pop every read or write of
\* a reachable node's next pointer and every read of a data node's value is
\* done by a thread holding that node's mutex, the only writes without it go
\* to a new node not yet reachable from head, and a node whose next pointer
\* one thread is about to write is accessed by no other thread.
\* check_invariants walks the chain holding no mutex at all.
C35_OperationsAccessUnderNodeMutex ==
    impl \in {"fine", "pq"} =>
        \A t \in Threads :
            IF op[t] = "check_invariants"
            THEN Held(t) = {}
            ELSE /\ Accessed(t) \subseteq Held(t) \cup Wanted(t)
                 /\ WrittenUnlocked(t) \cap Range(Chain) = {}
                 /\ \A u \in Threads \ {t} :
                       Written(t) \cap Accessed(u) \subseteq Wanted(u)

C35_Witness ==
    /\ impl = "pq"
    /\ \E t, u \in Threads :
          /\ pc[t] = "pop_unlink" /\ pred[t] # head
          /\ pc[u] = "for_push_lock_curr" /\ curr[u] = pred[t]
          /\ op[t] = "pop" /\ left[t] = 0
          /\ pre.calls = <<>>


C37_FifoInRealTimeOrder ==
    impl = "pq" =>
        \A b \in DOMAIN pre.earlier : \A a \in pre.earlier[b] :
            /\ Count(removed, b) > 0 => Count(removed, a) > 0
            /\ (InChain(a) > 0 /\ InChain(b) > 0) => Place(b) < Place(a)

C37_Witness ==
    /\ impl = "pq"
    /\ \E t, u \in Threads :
          /\ pc[t] = "pop_size" /\ op[u] = "push" /\ pc[u] = "for_push_lock_curr"
          /\ arg[u] \in DOMAIN pre.earlier /\ res[t] \in pre.earlier[arg[u]]
          /\ \E c \in DOMAIN added : c # res[t] /\ c[1] = res[t][1] /\ InChain(c) > 0


\* The node whose mutex the statement thread t is at unlocks.
Unlocking(t) ==
    IF pc[t] \in {"hoh_step", "for_push_step", "pop_advance", "unlock_pred",
                  "catch_unlock_pred", "push_unlock_pred", "pop_empty_unlock_head",
                  "pop_unlock_pred"}
    THEN {pred[t]} \ {NULL}
    ELSE IF pc[t] \in {"unlock_curr", "catch_unlock_curr", "push_unlock_curr",
                       "pop_empty_unlock_tail", "pop_unlock_victim"}
    THEN {curr[t]} \ {NULL}
    ELSE IF pc[t] = "pop_unlock_tail" THEN {node[t]}
    ELSE {}

\* C38: in the fine-locked set and queue a call holds no node lock when it
\* has returned or thrown, whichever way it went (success, duplicate, not
\* found, empty pop, failed allocation); a thread unlocks only a mutex it
\* holds and never locks one it holds already.
C38_LockHygiene ==
    impl \in {"fine", "pq"} =>
        \A t \in Threads :
            /\ pc[t] \in {"idle", "done", "thrown"} => Held(t) = {}
            /\ Unlocking(t) \subseteq Held(t)
            /\ Wanted(t) \cap Held(t) = {}

C38_Witness ==
    /\ impl = "fine"
    /\ \E t, u \in Threads :
          /\ pc[t] = "thrown" /\ op[t] = "add"
          /\ pc[u] = "catch_unlock_pred" /\ Held(u) = {pred[u]} /\ pred[u] # head
          /\ current_size = 1


\* C39: under any interleaving no traversal lands on null: find_and_lock_hoh
\* never takes its null branch and throws, no assert(... != nullptr) of push,
\* pop and find_and_lock_for_push fails, and the pointer each of these
\* statements is about to test or to lock is a node.
C39_TraversalNeverLandsOnNull ==
    impl \in {"fine", "pq"} =>
        \A t \in Threads :
            /\ pc[t] \notin {"thrown", "assert_failed"}
            /\ pc[t] \in {"hoh_lock_pred", "for_push_lock_pred", "pop_lock_head"} =>
                  next[head] \in nodes
            /\ pc[t] \in {"hoh_lock_curr", "for_push_lock_curr", "pop_lock_first"} =>
                  curr[t] \in nodes
            /\ pc[t] \in {"hoh_step", "for_push_step"} => next[curr[t]] \in nodes
            /\ pc[t] \in {"pop_lock_next", "pop_lock_tail"} => node[t] \in nodes
            /\ pc[t] = "pop_advance" => next[node[t]] \in nodes

C39_Witness ==
    /\ impl = "pq"
    /\ \E t, u \in Threads :
          /\ pc[t] = "pop_advance" /\ next[node[t]] = tail
          /\ pc[u] = "for_push_lock_pred" /\ left[u] = 0


\* The calls that have spliced a node in and not yet incremented, and those
\* that have unlinked one and not yet decremented.
Uncounted == {t \in Threads : pc[t] \in {"add_size", "push_size"}}
Overcounted == {t \in Threads : pc[t] \in {"remove_size", "pop_size"}}

\* C40: in every reachable state of the fine-locked set and queue the counter
\* is the number of data nodes, less the calls that have spliced a node in
\* and not yet incremented, plus the calls that have unlinked a node and not
\* yet decremented; it is never negative, and it is at least 1 whenever a call
\* is about to decrement it (the unsigned counter never wraps).
C40_CounterOffByInFlightOnly ==
    impl \in {"fine", "pq"} =>
        /\ current_size = Cardinality(DataNodes) - Cardinality(Uncounted)
                          + Cardinality(Overcounted)
        /\ current_size >= 0
        /\ Overcounted # {} => current_size >= 1

C40_Witness ==
    /\ impl = "pq" /\ DataNodes = {} /\ current_size = 1
    /\ \E t, u \in Threads :
          /\ pc[t] = "pop_size" /\ pc[u] = "pop_lock_head"
          /\ left[t] = 0 /\ left[u] = 0

====
